---- MODULE Spec2Model ----
(***************************************************************************)
(* A model of the rustchain node engine: transactions and blocks with     *)
(* their hashes, the balance/nonce state machine, the mempool, the        *)
(* round-robin consensus engine, the RocksDB-backed storage engine and    *)
(* the node runtime (genesis bootstrap, block-production ticker and       *)
(* incoming-message handler).                                              *)
(***************************************************************************)
EXTENDS Integers, Sequences, FiniteSets, TLC

VARIABLES
    db,         \* the key/value store on disk: column family -> key -> value
    ws,         \* StateMachine.world_state: Address -> Account (partial)
    mempool,    \* MempoolInner: transactions map and pending_queue
    wallet,     \* the key of the node's validator wallet
    boot,       \* position of run_node before the workers are spawned
    tpc,        \* position of the block-production task
    tloc,       \* its locals: tip read at the tick, block being produced
    hpc,        \* position of the incoming-message task
    hloc,       \* its locals: block in hand, rest of a sync response
    sm_lock,    \* holder of the state machine's mutex
    pre,        \* history: ws, mempool and db when sm_lock was taken
    commits,    \* history: number of commit_block calls that succeeded
    crashes,    \* history: number of crashes so far
    crash_note, \* history: positions of the workers at the last crash
    call,       \* history: the last state-machine call of a pure run
    consensus_lock,   \* holder of the consensus engine's mutex
    mempool_lock,     \* holder of the mempool's mutex
    storage_lock,     \* holder of the storage mutex
    rpc,              \* position of the initial sync request task
    network_commands  \* number of commands waiting in the network command queue

vars == <<db, ws, mempool, wallet, boot, tpc, tloc, hpc, hloc, sm_lock, pre,
          commits, crashes, crash_note, call, consensus_lock, mempool_lock,
          storage_lock, rpc, network_commands>>

\* the mutexes taken and released within one step of the node runtime, the
\* initial sync request task and the network command queue
concurrency == <<consensus_lock, mempool_lock, storage_lock, rpc,
                 network_commands>>

ConcurrencyIdle ==
    /\ consensus_lock = "none"
    /\ mempool_lock = "none"
    /\ storage_lock = "none"
    /\ rpc = "sleep"
    /\ network_commands = 0

-----------------------------------------------------------------------------
(* Bounds of the model *)

\* u64 arithmetic is kept with its wrap-around, on a scaled-down width
U64Modulus == 4
\* longest transaction list of a block drawn as an input
MaxBlockTxs == 2

\* highest block number the ticker proposes or the network delivers
MaxHeight == 2
\* number of successful commits after which no new block is taken up
MaxCommits == 2
\* number of process crashes
MaxCrashes == 1
\* longest block list of a sync response drawn as an input
MaxSyncBlocks == 2
\* MempoolConfig.max_transactions and consensus.max_txs_per_block of the run
max_transactions == 2
max_txs_per_block == 2
\* MempoolConfig.max_transactions of the runs of the mempool alone
MempoolCapacity == 3
\* number of add_transaction calls of such a run
MaxAdds == 4

U64Max == U64Modulus - 1

-----------------------------------------------------------------------------
(* Keys, addresses, signatures, hashes *)

\* Ed25519 public keys; "v0" and "v1" are the genesis validators
Keys == {"v0", "v1", "u"}

\* the address of a key is the key's 32 bytes
address_from_public_key(pk) == pk

Addresses == {address_from_public_key(k) : k \in Keys}

\* SHA-256 of an encoded value, taken as collision-free
Sha256(encoded) == <<"H", encoded>>

\* an Ed25519 signature made with the secret key of `k` over `msg`
Sign(k, msg) == [by |-> k, over |-> msg]
Verify(pk, msg, sig) == sig = Sign(pk, msg)

\* 64 zero bytes: has the length of a signature and verifies under no key
ZeroSignature == [by |-> "nobody", over |-> <<"H", <<"zeros">>>>]
\* a byte string whose length is not 64
ShortSignature == [by |-> "nobody", over |-> <<"H", <<"short">>>>]
\* the empty byte string a header is hashed with
EmptySignature == [by |-> "nobody", over |-> <<"H", <<"empty">>>>]

-----------------------------------------------------------------------------
(* Transactions *)

Transaction(sender, recipient, amount, nonce, signature) ==
    [sender |-> sender, recipient |-> recipient, amount |-> amount,
     nonce |-> nonce, signature |-> signature]

\* hash of the signable payload (sender, recipient, amount, nonce)
data_to_sign_hash(tx) ==
    Sha256(<<tx.sender, tx.recipient, tx.amount, tx.nonce>>)

\* hash of the entire encoded transaction, signature included
id(tx) ==
    Sha256(<<tx.sender, tx.recipient, tx.amount, tx.nonce, tx.signature>>)

verify_signature(tx, sender_public_key) ==
    Verify(sender_public_key, data_to_sign_hash(tx), tx.signature)

validate_intrinsic_properties(tx) ==
    IF tx.amount = 0 THEN "ZeroAmount" ELSE "Ok"

\* a transaction as a wallet creates it
create_signed_transaction(sender, recipient, amount, nonce) ==
    LET unsigned == Transaction(sender, recipient, amount, nonce, ZeroSignature)
    IN  Transaction(sender, recipient, amount, nonce,
                    Sign(sender, data_to_sign_hash(unsigned)))

-----------------------------------------------------------------------------
(* State machine *)

Ok == [kind |-> "Ok"]
\* the thread unwinds on an arithmetic overflow in a build with overflow checks
Panic == [kind |-> "Panic"]

IsError(e) == e # Ok /\ e # Panic

Account(balance, nonce) == [balance |-> balance, nonce |-> nonce]
AccountDefault == Account(0, 0)

\* the nonce is compared before the balance
validate_transaction_stateful_nonce_first(world_state, tx) ==
    LET sender_address == address_from_public_key(tx.sender) IN
    IF sender_address \notin DOMAIN world_state
    THEN [kind |-> "AccountNotFound", address |-> sender_address]
    ELSE LET sender_account == world_state[sender_address] IN
         IF sender_account.nonce # tx.nonce
         THEN [kind |-> "InvalidNonce",
               expected |-> sender_account.nonce, actual |-> tx.nonce]
         ELSE IF sender_account.balance < tx.amount
         THEN [kind |-> "InsufficientBalance",
               current |-> sender_account.balance, required |-> tx.amount]
         ELSE Ok

validate_transaction_stateful(world_state, tx) ==
    LET sender_address == address_from_public_key(tx.sender) IN
    IF sender_address \notin DOMAIN world_state
    THEN [kind |-> "AccountNotFound", address |-> sender_address]
    ELSE LET sender_account == world_state[sender_address] IN
         IF sender_account.balance < tx.amount
         THEN [kind |-> "InsufficientBalance",
               current |-> sender_account.balance, required |-> tx.amount]
         ELSE IF sender_account.nonce # tx.nonce
         THEN [kind |-> "InvalidNonce",
               expected |-> sender_account.nonce, actual |-> tx.nonce]
         ELSE Ok

\* HashMap::entry(address).or_insert_with(Account::default)
or_insert_default(world_state, address) ==
    IF address \in DOMAIN world_state
    THEN world_state
    ELSE [a \in DOMAIN world_state \cup {address} |->
            IF a = address THEN AccountDefault ELSE world_state[a]]

\* apply_transaction that leaves the sender's nonce as it is
apply_transaction_keeps_nonce(world_state, tx, overflow_checks) ==
    LET v == validate_transaction_stateful(world_state, tx)
        sender_address == address_from_public_key(tx.sender)
        recipient_address == tx.recipient
    IN
    IF v # Ok THEN [err |-> v, ws |-> world_state]
    ELSE
    LET debited == [world_state EXCEPT ![sender_address].balance = @ - tx.amount]
        entered == or_insert_default(debited, recipient_address)
        balance_sum == entered[recipient_address].balance + tx.amount
    IN
    IF balance_sum > U64Max /\ overflow_checks THEN [err |-> Panic, ws |-> entered]
    ELSE [err |-> Ok,
          ws |-> [entered EXCEPT ![recipient_address].balance =
                                        balance_sum % U64Modulus]]

\* Applies one transaction; `overflow_checks` is the build's arithmetic mode
\* (panic on overflow, or wrap around).  Returns the error and the state left.
apply_transaction(world_state, tx, overflow_checks) ==
    LET v == validate_transaction_stateful(world_state, tx)
        sender_address == address_from_public_key(tx.sender)
        recipient_address == tx.recipient
    IN
    IF v # Ok THEN [err |-> v, ws |-> world_state]
    ELSE
    LET debited == [world_state EXCEPT ![sender_address].balance = @ - tx.amount]
        nonce_sum == world_state[sender_address].nonce + 1
    IN
    IF nonce_sum > U64Max /\ overflow_checks THEN [err |-> Panic, ws |-> debited]
    ELSE
    LET bumped == [debited EXCEPT ![sender_address].nonce = nonce_sum % U64Modulus]
        entered == or_insert_default(bumped, recipient_address)
        balance_sum == entered[recipient_address].balance + tx.amount
    IN
    IF balance_sum > U64Max /\ overflow_checks THEN [err |-> Panic, ws |-> entered]
    ELSE [err |-> Ok,
          ws |-> [entered EXCEPT ![recipient_address].balance =
                                        balance_sum % U64Modulus]]

\* the loop stops one transaction short of the end of the list
RECURSIVE apply_transactions_from_short(_, _, _, _)
apply_transactions_from_short(world_state, transactions, i, overflow_checks) ==
    IF i >= Len(transactions) THEN [err |-> Ok, ws |-> world_state]
    ELSE LET r == apply_transaction(world_state, transactions[i], overflow_checks) IN
         IF r.err # Ok THEN r
         ELSE apply_transactions_from_short(r.ws, transactions, i + 1,
                                            overflow_checks)

\* the loop of apply_block: applies transactions[i..] and stops at the first
\* one that does not apply, with the state reached so far
RECURSIVE apply_transactions_from(_, _, _, _)
apply_transactions_from(world_state, transactions, i, overflow_checks) ==
    IF i > Len(transactions) THEN [err |-> Ok, ws |-> world_state]
    ELSE LET r == apply_transaction(world_state, transactions[i], overflow_checks) IN
         IF r.err # Ok THEN r
         ELSE apply_transactions_from(r.ws, transactions, i + 1, overflow_checks)

\* the state is left as it is where a transaction fails
apply_block_no_revert(world_state, block, overflow_checks) ==
    apply_transactions_from(world_state, block.transactions, 1, overflow_checks)

\* Applies the transactions of a block in order; the first failure restores
\* the snapshot taken on entry and is returned.
apply_block(world_state, block, overflow_checks) ==
    LET original_state == world_state
        r == apply_transactions_from(world_state, block.transactions, 1,
                                     overflow_checks)
    IN  IF IsError(r.err) THEN [err |-> r.err, ws |-> original_state] ELSE r

-----------------------------------------------------------------------------
(* Blocks and the Merkle root *)

\* Hash([0u8; 32])
ZeroHash == <<"H", <<"zero32">>>>

BlockHeader(parent_hash, block_number, timestamp, tx_root, validator, signature) ==
    [parent_hash |-> parent_hash, block_number |-> block_number,
     timestamp |-> timestamp, tx_root |-> tx_root, validator |-> validator,
     signature |-> signature]

Block(header, transactions) == [header |-> header, transactions |-> transactions]

\* hash of the encoded header with its signature replaced by the empty string
calculate_hash(header) ==
    Sha256(<<header.parent_hash, header.block_number, header.timestamp,
             header.tx_root, header.validator, EmptySignature>>)

\* the pairing loop without the duplication of the last hash of an odd level
RECURSIVE merkle_reduce_no_duplicate(_)
merkle_reduce_no_duplicate(current_level_hashes) ==
    IF Len(current_level_hashes) <= 1 THEN current_level_hashes
    ELSE merkle_reduce_no_duplicate(
             [k \in 1..(Len(current_level_hashes) \div 2) |->
                 Sha256(<<current_level_hashes[2 * k - 1],
                          current_level_hashes[2 * k]>>)])

\* one round of the pairing loop: hash the chunks of two, then duplicate
\* the last hash if the new level is odd and longer than one
RECURSIVE merkle_reduce(_)
merkle_reduce(current_level_hashes) ==
    IF Len(current_level_hashes) <= 1 THEN current_level_hashes
    ELSE LET next_level_hashes ==
                 [k \in 1..(Len(current_level_hashes) \div 2) |->
                     Sha256(<<current_level_hashes[2 * k - 1],
                              current_level_hashes[2 * k]>>)]
             n == Len(next_level_hashes)
         IN  merkle_reduce(IF n % 2 # 0 /\ n > 1
                           THEN Append(next_level_hashes, next_level_hashes[n])
                           ELSE next_level_hashes)

calculate_merkle_root(transactions) ==
    IF Len(transactions) = 0 THEN Sha256(<<>>)
    ELSE LET hashes == [k \in 1..Len(transactions) |-> id(transactions[k])]
             n == Len(hashes)
         IN  IF n = 1 THEN Sha256(<<hashes[1], hashes[1]>>)
             ELSE merkle_reduce(IF n % 2 # 0 THEN Append(hashes, hashes[n])
                                ELSE hashes)[1]

verify_merkle_root(block) ==
    LET calculated_root == calculate_merkle_root(block.transactions) IN
    IF block.header.tx_root = calculated_root THEN Ok
    ELSE [kind |-> "MerkleRootMismatch", expected |-> block.header.tx_root,
          actual |-> calculated_root]

-----------------------------------------------------------------------------
(* Consensus engine *)

\* get_proposer that always answers with the first validator of the list
get_proposer_first_validator(validators, height) ==
    IF Len(validators) = 0 THEN [err |-> [kind |-> "ProposerNotInValidatorSet"]]
    ELSE [err |-> Ok, pk |-> validators[1]]

\* get_proposer that indexes the list with the height after the one asked
get_proposer_off_by_one(validators, height) ==
    IF Len(validators) = 0 THEN [err |-> [kind |-> "ProposerNotInValidatorSet"]]
    ELSE [err |-> Ok, pk |-> validators[((height + 1) % Len(validators)) + 1]]

\* validators[height mod n], or an error for an empty validator list
get_proposer(validators, height) ==
    IF Len(validators) = 0 THEN [err |-> [kind |-> "ProposerNotInValidatorSet"]]
    ELSE [err |-> Ok, pk |-> validators[(height % Len(validators)) + 1]]

\* validate_proposer that accepts the address of any validator of the list
validate_proposer_any_member(validators, block_header) ==
    LET expected == get_proposer(validators, block_header.block_number) IN
    IF expected.err # Ok THEN expected.err
    ELSE LET expected_address == address_from_public_key(expected.pk) IN
         IF \A k \in 1..Len(validators) :
               block_header.validator # address_from_public_key(validators[k])
         THEN [kind |-> "InvalidProposer", expected |-> expected_address,
               got |-> block_header.validator]
         ELSE Ok

validate_proposer(validators, block_header) ==
    LET expected == get_proposer(validators, block_header.block_number) IN
    IF expected.err # Ok THEN expected.err
    ELSE LET expected_address == address_from_public_key(expected.pk) IN
         IF block_header.validator # expected_address
         THEN [kind |-> "InvalidProposer", expected |-> expected_address,
               got |-> block_header.validator]
         ELSE Ok

\* the first validator key whose address is `address`, if any
get_proposer_pk_for_address(validators, address) ==
    LET matching == {k \in 1..Len(validators) :
                        address_from_public_key(validators[k]) = address}
    IN  IF matching = {} THEN [found |-> FALSE]
        ELSE [found |-> TRUE,
              pk |-> validators[CHOOSE k \in matching : \A j \in matching : k <= j]]

validate_block(validators, block) ==
    LET p == validate_proposer(validators, block.header) IN
    IF p # Ok THEN p
    ELSE LET proposer == get_proposer_pk_for_address(validators,
                                                     block.header.validator)
         IN
         IF ~proposer.found THEN [kind |-> "ProposerNotInValidatorSet"]
         ELSE IF block.header.signature = ShortSignature
         THEN [kind |-> "InvalidSignatureFormat"]
         ELSE IF ~Verify(proposer.pk, calculate_hash(block.header),
                         block.header.signature)
         THEN [kind |-> "InvalidSignature"]
         ELSE Ok

\* Hash derives Ord: hashes compare as their 32 bytes, lexicographically.
\* The bytes of a SHA-256 output are not modelled; hash_order gives each hash
\* its position in that total order.
hash_lt(hash_order, h1, h2) == hash_order[h1] < hash_order[h2]

\* fork_choice that breaks a tie towards the larger hash
fork_choice_larger_hash(hash_order, current_head, new_head) ==
    IF new_head.block_number > current_head.block_number THEN new_head
    ELSE IF new_head.block_number = current_head.block_number
    THEN IF hash_lt(hash_order, calculate_hash(current_head),
                    calculate_hash(new_head))
         THEN new_head
         ELSE current_head
    ELSE current_head

fork_choice(hash_order, current_head, new_head) ==
    IF new_head.block_number > current_head.block_number THEN new_head
    ELSE IF new_head.block_number = current_head.block_number
    THEN IF hash_lt(hash_order, calculate_hash(new_head),
                    calculate_hash(current_head))
         THEN new_head
         ELSE current_head
    ELSE current_head

-----------------------------------------------------------------------------
(* Mempool *)

\* f with key k set to v
Put(f, k, v) == [x \in DOMAIN f \cup {k} |-> IF x = k THEN v ELSE f[x]]
\* f without the keys of S
Without(f, S) == [x \in DOMAIN f \ S |-> f[x]]

EmptyMap == [x \in {} |-> x]

MempoolNew == [transactions |-> EmptyMap, pending_queue |-> <<>>]

\* the capacity test lets one transaction too many in
add_transaction_over_capacity(mp, capacity, transaction) ==
    LET tx_id == id(transaction) IN
    IF Len(mp.pending_queue) > capacity
    THEN [err |-> [kind |-> "PoolFull"], mp |-> mp]
    ELSE IF tx_id \in DOMAIN mp.transactions
    THEN [err |-> [kind |-> "TransactionExists", id |-> tx_id], mp |-> mp]
    ELSE IF transaction.amount = 0
    THEN [err |-> [kind |-> "ZeroAmountTransaction"], mp |-> mp]
    ELSE [err |-> Ok, id |-> tx_id,
          mp |-> [transactions |-> Put(mp.transactions, tx_id, transaction),
                  pending_queue |-> Append(mp.pending_queue, tx_id)]]

add_transaction(mp, capacity, transaction) ==
    LET tx_id == id(transaction) IN
    IF Len(mp.pending_queue) >= capacity
    THEN [err |-> [kind |-> "PoolFull"], mp |-> mp]
    ELSE IF tx_id \in DOMAIN mp.transactions
    THEN [err |-> [kind |-> "TransactionExists", id |-> tx_id], mp |-> mp]
    ELSE IF transaction.amount = 0
    THEN [err |-> [kind |-> "ZeroAmountTransaction"], mp |-> mp]
    ELSE [err |-> Ok, id |-> tx_id,
          mp |-> [transactions |-> Put(mp.transactions, tx_id, transaction),
                  pending_queue |-> Append(mp.pending_queue, tx_id)]]

\* the newest transactions first
get_pending_transactions_newest_first(mp, max_txs) ==
    LET n == Len(mp.pending_queue)
        count == IF max_txs < n THEN max_txs ELSE n
    IN  [k \in 1..count |-> mp.transactions[mp.pending_queue[n + 1 - k]]]

\* the transactions of the first max_txs queue entries that the map holds
get_pending_transactions(mp, max_txs) ==
    LET taken == SubSeq(mp.pending_queue, 1,
                        IF max_txs < Len(mp.pending_queue) THEN max_txs
                        ELSE Len(mp.pending_queue))
        InMap(h) == h \in DOMAIN mp.transactions
        present == SelectSeq(taken, InMap)
    IN  [k \in 1..Len(present) |-> mp.transactions[present[k]]]

\* VecDeque::swap_remove_back of the entry h, if the queue has it
swap_remove_back(queue, h) ==
    IF \A k \in 1..Len(queue) : queue[k] # h THEN queue
    ELSE LET i == CHOOSE k \in 1..Len(queue) : queue[k] = h IN
         [k \in 1..(Len(queue) - 1) |-> IF k = i THEN queue[Len(queue)] ELSE queue[k]]

RECURSIVE swap_remove_all(_, _, _)
swap_remove_all(queue, hashes, i) ==
    IF i > Len(hashes) THEN queue
    ELSE swap_remove_all(swap_remove_back(queue, hashes[i]), hashes, i + 1)

\* the queue entries are taken out by swapping the last entry into their place
remove_transactions_swap(mp, transaction_hashes_to_remove) ==
    LET hashes_to_remove_set ==
            {transaction_hashes_to_remove[k] :
                k \in 1..Len(transaction_hashes_to_remove)}
    IN  [transactions |-> Without(mp.transactions, hashes_to_remove_set),
         pending_queue |-> swap_remove_all(mp.pending_queue,
                                           transaction_hashes_to_remove, 1)]

\* the hashes leave the queue and stay in the map
remove_transactions_queue_only(mp, transaction_hashes_to_remove) ==
    LET hashes_to_remove_set ==
            {transaction_hashes_to_remove[k] :
                k \in 1..Len(transaction_hashes_to_remove)}
        Kept(h) == h \notin hashes_to_remove_set
    IN  [transactions |-> mp.transactions,
         pending_queue |-> SelectSeq(mp.pending_queue, Kept)]

\* the hashes leave the map and stay in the queue
remove_transactions_map_only(mp, transaction_hashes_to_remove) ==
    LET hashes_to_remove_set ==
            {transaction_hashes_to_remove[k] :
                k \in 1..Len(transaction_hashes_to_remove)}
    IN  [transactions |-> Without(mp.transactions, hashes_to_remove_set),
         pending_queue |-> mp.pending_queue]

remove_transactions(mp, transaction_hashes_to_remove) ==
    IF Len(transaction_hashes_to_remove) = 0 THEN mp
    ELSE LET hashes_to_remove_set ==
                 {transaction_hashes_to_remove[k] :
                     k \in 1..Len(transaction_hashes_to_remove)}
             Kept(h) == h \notin hashes_to_remove_set
         IN  [transactions |-> Without(mp.transactions, hashes_to_remove_set),
              pending_queue |-> SelectSeq(mp.pending_queue, Kept)]

contains_transaction(mp, tx_hash) == tx_hash \in DOMAIN mp.transactions

status(mp, capacity) ==
    [pending_transactions_count |-> Len(mp.pending_queue), capacity |-> capacity]

-----------------------------------------------------------------------------
(* Storage engine: four column families of a key/value store *)

DbEmpty == [blocks |-> EmptyMap, headers |-> EmptyMap, state |-> EmptyMap,
            meta |-> EmptyMap]

PutOp(cf, key, value) == [cf |-> cf, key |-> key, value |-> value]

\* DB::put_cf: one durable write
put_cf(store, op) == [store EXCEPT ![op.cf] = Put(@, op.key, op.value)]

\* DB::write(batch): all writes of the batch become visible together
RECURSIVE write(_, _)
write(store, batch) ==
    IF Len(batch) = 0 THEN store
    ELSE write(put_cf(store, batch[1]), Tail(batch))

\* the entries of a map as a sequence of puts, in some iteration order
RECURSIVE account_puts(_)
account_puts(world_state) ==
    IF DOMAIN world_state = {} THEN <<>>
    ELSE LET address == CHOOSE a \in DOMAIN world_state : TRUE IN
         <<PutOp("state", address, world_state[address])>>
            \o account_puts(Without(world_state, {address}))

get_chain_tip(store) ==
    IF "tip" \notin DOMAIN store.meta \/ "height" \notin DOMAIN store.meta
    THEN [some |-> FALSE]
    ELSE [some |-> TRUE, hash |-> store.meta["tip"], height |-> store.meta["height"]]

\* the write batch of commit_block without the height key
commit_block_batch_tip_only(block, world_state) ==
    <<PutOp("blocks", calculate_hash(block.header), block)>>
        \o account_puts(world_state)
        \o <<PutOp("meta", "tip", calculate_hash(block.header))>>

\* the write batch commit_block builds: the block under its hash, every
\* account of the world state, the tip hash and the height
commit_block_batch(block, world_state) ==
    LET hash == calculate_hash(block.header) IN
    <<PutOp("blocks", hash, block)>>
        \o account_puts(world_state)
        \o <<PutOp("meta", "tip", hash),
             PutOp("meta", "height", block.header.block_number)>>

commit_block(store, block, world_state) ==
    write(store, commit_block_batch(block, world_state))

-----------------------------------------------------------------------------
(* Genesis descriptor and the inputs of a run *)

\* GenesisData.validators, initial_balances and timestamp
GenesisValidators == <<"v0", "v1">>
InitialBalances == [a \in {"v0"} |-> 2]
GenesisTimestamp == 1

Timestamps == {1}

\* the key file the node is started with: the second validator's
NodeWallet == "v1"

TxA == create_signed_transaction("v0", "u", 1, 0)
TxB == create_signed_transaction("v0", "u", 1, 1)
\* zero amount
TxZ == create_signed_transaction("v0", "u", 0, 0)
\* v0's money moved by a signature of u
TxF == Transaction("v0", "v1", 1, 0,
                   Sign("u", data_to_sign_hash(Transaction("v0", "v1", 1, 0, ZeroSignature))))

\* transactions the network delivers
NetTxs == {TxA, TxB, TxZ}

\* bodies of the blocks the network delivers: a transaction list, and whether
\* the header carries its Merkle root
NetBodies ==
    {[txs |-> <<>>, right_root |-> TRUE], [txs |-> <<TxA>>, right_root |-> TRUE],
     [txs |-> <<TxA>>, right_root |-> FALSE], [txs |-> <<TxB>>, right_root |-> TRUE],
     [txs |-> <<TxZ>>, right_root |-> TRUE], [txs |-> <<TxF>>, right_root |-> TRUE]}

\* bodies of the blocks of a sync response
SyncBodies ==
    {[txs |-> <<>>, right_root |-> TRUE], [txs |-> <<TxA>>, right_root |-> TRUE]}

NoBlock == [header |-> [parent_hash |-> ZeroHash, block_number |-> 0,
                        timestamp |-> 0, tx_root |-> ZeroHash,
                        validator |-> "nobody", signature |-> EmptySignature],
            transactions |-> <<>>]
NoSnapshot == [taken |-> FALSE]
NoCall == [op |-> "none"]
NoCrash == [tpc |-> "none", hpc |-> "none"]

TickerIdle == [tip_hash |-> ZeroHash, height |-> 0, time |-> 0, block |-> NoBlock]
HandlerIdle == [block |-> NoBlock, rest |-> <<>>, failed |-> FALSE]

\* who puts the signature on a delivered header: a key, or nobody (64 zero
\* bytes, or a byte string of another length)
Signers == Keys \cup {"zeros", "short"}

SignatureOf(signer, header) ==
    IF signer = "zeros" THEN ZeroSignature
    ELSE IF signer = "short" THEN ShortSignature
    ELSE Sign(signer, calculate_hash(header))

\* a block as a peer may send it
NetBlock(parent, n, t, txs, right_root, validator, signer) ==
    LET root == IF right_root THEN calculate_merkle_root(txs) ELSE ZeroHash
        unsigned == BlockHeader(parent, n, t, root, validator, EmptySignature)
    IN  Block([unsigned EXCEPT !.signature = SignatureOf(signer, unsigned)], txs)

-----------------------------------------------------------------------------
(* Node runtime: start-up and genesis *)

create_genesis_block ==
    Block(BlockHeader(ZeroHash, 0, GenesisTimestamp, calculate_merkle_root(<<>>),
                      address_from_public_key(GenesisValidators[1]),
                      ZeroSignature),
          <<>>)

Init ==
    /\ db = DbEmpty
    /\ ws = EmptyMap
    /\ mempool = MempoolNew
    /\ wallet = NodeWallet
    /\ ConcurrencyIdle
    /\ boot = [pc |-> "start", written |-> {}]
    /\ tpc = "sleep"
    /\ tloc = TickerIdle
    /\ hpc = "recv"
    /\ hloc = HandlerIdle
    /\ sm_lock = "none"
    /\ pre = NoSnapshot
    /\ commits = 0
    /\ crashes = 0
    /\ crash_note = NoCrash
    /\ call = NoCall

Running == boot.pc = "running"

history == <<pre, commits, crashes, crash_note, call>>
workers == <<tpc, tloc, hpc, hloc, sm_lock>>

\* run_node up to the genesis check: fresh state machine and mempool, and
\* genesis only if storage shows no chain tip
Start ==
    /\ boot.pc = "start"
    /\ ws' = EmptyMap
    /\ mempool' = MempoolNew
    /\ boot' = [pc |-> IF get_chain_tip(db).some THEN "running" ELSE "genesis_accounts",
                written |-> {}]
    /\ UNCHANGED <<db, wallet, concurrency, workers, history>>

\* initialize_genesis_state: the accounts go into the state machine
GenesisSetAccounts ==
    /\ boot.pc = "genesis_accounts"
    /\ ws' = [a \in DOMAIN ws \cup DOMAIN InitialBalances |->
                IF a \in DOMAIN InitialBalances
                THEN Account(InitialBalances[a], 0) ELSE ws[a]]
    /\ boot' = [boot EXCEPT !.pc = "put_block"]
    /\ UNCHANGED <<db, mempool, wallet, concurrency, workers, history>>

GenesisPutBlock ==
    /\ boot.pc = "put_block"
    /\ db' = put_cf(db, PutOp("blocks", calculate_hash(create_genesis_block.header),
                              create_genesis_block))
    /\ boot' = [boot EXCEPT !.pc = "put_header"]
    /\ UNCHANGED <<ws, mempool, wallet, concurrency, workers, history>>

GenesisPutHeader ==
    /\ boot.pc = "put_header"
    /\ db' = put_cf(db, PutOp("headers", create_genesis_block.header.block_number,
                              create_genesis_block.header))
    /\ boot' = [boot EXCEPT !.pc = "put_tip"]
    /\ UNCHANGED <<ws, mempool, wallet, concurrency, workers, history>>

\* set_chain_tip writes the tip hash, then the height
GenesisPutTip ==
    /\ boot.pc = "put_tip"
    /\ db' = put_cf(db, PutOp("meta", "tip", calculate_hash(create_genesis_block.header)))
    /\ boot' = [boot EXCEPT !.pc = "put_height"]
    /\ UNCHANGED <<ws, mempool, wallet, concurrency, workers, history>>

GenesisPutHeight ==
    /\ boot.pc = "put_height"
    /\ db' = put_cf(db, PutOp("meta", "height", create_genesis_block.header.block_number))
    /\ boot' = [boot EXCEPT !.pc = IF DOMAIN InitialBalances = {} THEN "running"
                                   ELSE "put_accounts"]
    /\ UNCHANGED <<ws, mempool, wallet, concurrency, workers, history>>

\* one put_account of the loop over initial_balances
GenesisPutAccount ==
    /\ boot.pc = "put_accounts"
    /\ \E address \in DOMAIN InitialBalances \ boot.written :
        /\ db' = put_cf(db, PutOp("state", address,
                                  Account(InitialBalances[address], 0)))
        /\ boot' = [pc |-> IF boot.written \cup {address} = DOMAIN InitialBalances
                           THEN "running" ELSE "put_accounts",
                    written |-> IF boot.written \cup {address} = DOMAIN InitialBalances
                                THEN {} ELSE boot.written \cup {address}]
    /\ UNCHANGED <<ws, mempool, wallet, concurrency, workers, history>>

\* the process dies; what is on disk stays
Crash ==
    /\ crashes < MaxCrashes
    /\ boot.pc # "start"
    /\ crashes' = crashes + 1
    /\ crash_note' = [tpc |-> tpc, hpc |-> hpc]
    /\ boot' = [pc |-> "start", written |-> {}]
    /\ ws' = EmptyMap
    /\ mempool' = MempoolNew
    /\ tpc' = "sleep"
    /\ tloc' = TickerIdle
    /\ hpc' = "recv"
    /\ hloc' = HandlerIdle
    /\ sm_lock' = "none"
    /\ pre' = NoSnapshot
    /\ UNCHANGED <<db, wallet, concurrency, commits, call>>

-----------------------------------------------------------------------------
(* Node runtime: the block-production task *)

Snapshot == [taken |-> TRUE, ws |-> ws, mempool |-> mempool, db |-> db]

tx_hashes(block) == [k \in 1..Len(block.transactions) |-> id(block.transactions[k])]

\* interval tick: read the chain tip and ask whose turn the next height is
TickerTick ==
    /\ Running /\ tpc = "sleep"
    /\ commits < MaxCommits
    /\ LET tip == get_chain_tip(db)
           current_tip_hash == IF tip.some THEN tip.hash ELSE ZeroHash
           current_height == IF tip.some THEN tip.height ELSE 0
           next_height == current_height + 1
           expected_proposer == get_proposer(GenesisValidators, next_height)
       IN  /\ next_height <= MaxHeight
           /\ expected_proposer.err = Ok
           /\ address_from_public_key(wallet)
                = address_from_public_key(expected_proposer.pk)
           /\ \E current_time \in Timestamps :
                tloc' = [tip_hash |-> current_tip_hash, height |-> current_height,
                         time |-> current_time, block |-> NoBlock]
           /\ tpc' = "collect"
    /\ UNCHANGED <<db, ws, mempool, wallet, concurrency, boot, hpc, hloc, sm_lock, history>>

\* read the mempool, build the header over the read tip and sign it
TickerCollect ==
    /\ Running /\ tpc = "collect"
    /\ LET transactions == get_pending_transactions(mempool, max_txs_per_block)
           unsigned == BlockHeader(tloc.tip_hash, tloc.height + 1, tloc.time,
                                   calculate_merkle_root(transactions),
                                   address_from_public_key(wallet), ZeroSignature)
           block_header == [unsigned EXCEPT
                              !.signature = Sign(wallet, calculate_hash(unsigned))]
       IN  tloc' = [tloc EXCEPT !.block = Block(block_header, transactions)]
    /\ tpc' = "apply"
    /\ UNCHANGED <<db, ws, mempool, wallet, concurrency, boot, hpc, hloc, sm_lock, history>>

\* take the state machine's lock and apply the block; an error ends the tick
TickerApply ==
    /\ Running /\ tpc = "apply" /\ sm_lock = "none"
    /\ \E overflow_checks \in BOOLEAN :
        LET r == apply_block(ws, tloc.block, overflow_checks) IN
        /\ ws' = r.ws
        /\ IF r.err = Ok
           THEN /\ tpc' = "remove" /\ sm_lock' = "ticker" /\ pre' = Snapshot
                /\ tloc' = tloc
           ELSE /\ tpc' = IF r.err = Panic THEN "dead" ELSE "sleep"
                /\ sm_lock' = "none" /\ pre' = NoSnapshot /\ tloc' = TickerIdle
    /\ UNCHANGED <<db, mempool, wallet, concurrency, boot, hpc, hloc, commits, crashes,
                   crash_note, call>>

TickerRemove ==
    /\ Running /\ tpc = "remove"
    /\ mempool' = remove_transactions(mempool, tx_hashes(tloc.block))
    /\ tpc' = "commit"
    /\ UNCHANGED <<db, ws, wallet, concurrency, boot, tloc, hpc, hloc, sm_lock, history>>

\* commit_block writes its batch; the block then goes to the network task
TickerCommit ==
    /\ Running /\ tpc = "commit"
    /\ db' = commit_block(db, tloc.block, ws)
    /\ commits' = commits + 1
    /\ tpc' = "sleep" /\ tloc' = TickerIdle
    /\ sm_lock' = "none" /\ pre' = NoSnapshot
    /\ UNCHANGED <<ws, mempool, wallet, concurrency, boot, hpc, hloc, crashes,
                   crash_note, call>>

\* commit_block returns a storage error: the tick ends; `note` is what the
\* history keeps of it
TickerCommitFailsWith(note) ==
    /\ Running /\ tpc = "commit"
    /\ tpc' = "sleep" /\ tloc' = TickerIdle
    /\ sm_lock' = "none" /\ pre' = NoSnapshot
    /\ call' = note
    /\ UNCHANGED <<db, ws, mempool, wallet, concurrency, boot, hpc, hloc, commits, crashes,
                   crash_note>>

TickerCommitFails == TickerCommitFailsWith(call)

-----------------------------------------------------------------------------
(* Node runtime: the incoming-message task *)

HandlerNewTransaction ==
    /\ Running /\ hpc = "recv"
    /\ \E tx \in NetTxs :
        mempool' = add_transaction(mempool, max_transactions, tx).mp
    /\ UNCHANGED <<db, ws, wallet, concurrency, boot, workers, history>>

\* the tip hash a peer builds on, as far as this node can tell
TipHashOr(store) == IF get_chain_tip(store).some THEN get_chain_tip(store).hash
                    ELSE ZeroHash

\* validate_block, then apply_block under the state machine's lock; what the
\* task moves to, with `fail` the position after a dropped block.  hloc.failed
\* records that a block of the sync response in progress was dropped.
ValidateAndApply(block, applied, fail, rest) ==
    IF validate_block(GenesisValidators, block) # Ok
    THEN /\ hpc' = fail
         /\ hloc' = [block |-> NoBlock, rest |-> rest,
                     failed |-> fail = "sync_next"]
         /\ UNCHANGED <<ws, sm_lock, pre>>
    ELSE /\ sm_lock = "none"
         /\ \E overflow_checks \in BOOLEAN :
             LET r == apply_block(ws, block, overflow_checks) IN
             /\ ws' = r.ws
             /\ IF r.err = Ok
                THEN /\ hpc' = applied /\ sm_lock' = "handler" /\ pre' = Snapshot
                     /\ hloc' = [block |-> block, rest |-> rest,
                                 failed |-> hloc.failed]
                ELSE /\ hpc' = IF r.err = Panic THEN "dead" ELSE fail
                     /\ sm_lock' = "none" /\ pre' = NoSnapshot
                     /\ hloc' = [block |-> NoBlock, rest |-> rest,
                                 failed |-> fail = "sync_next"]

\* NewBlock: a block that consensus rejects or that does not apply is dropped
HandlerNewBlock ==
    /\ Running /\ hpc = "recv"
    /\ commits < MaxCommits
    /\ \E parent \in {TipHashOr(db), ZeroHash}, n \in 1..MaxHeight, t \in Timestamps,
          body \in NetBodies, validator \in Keys, signer \in Signers :
        /\ parent = ZeroHash => body.txs = <<>>
        /\ ValidateAndApply(NetBlock(parent, n, t, body.txs, body.right_root,
                                     validator, signer),
                            "remove", "recv", <<>>)
    /\ UNCHANGED <<db, mempool, wallet, concurrency, boot, tpc, tloc, commits, crashes,
                   crash_note, call>>

HandlerRemove ==
    /\ Running /\ hpc = "remove"
    /\ mempool' = remove_transactions(mempool, tx_hashes(hloc.block))
    /\ hpc' = "commit"
    /\ UNCHANGED <<db, ws, wallet, concurrency, boot, tpc, tloc, hloc, sm_lock, history>>

HandlerCommit ==
    /\ Running /\ hpc = "commit"
    /\ db' = commit_block(db, hloc.block, ws)
    /\ commits' = commits + 1
    /\ hpc' = "recv" /\ hloc' = HandlerIdle
    /\ sm_lock' = "none" /\ pre' = NoSnapshot
    /\ UNCHANGED <<ws, mempool, wallet, concurrency, boot, tpc, tloc, crashes, crash_note, call>>

\* commit_block returns a storage error: the block is given up
HandlerCommitFails ==
    /\ Running /\ hpc = "commit"
    /\ hpc' = "recv" /\ hloc' = HandlerIdle
    /\ sm_lock' = "none" /\ pre' = NoSnapshot
    /\ UNCHANGED <<db, ws, mempool, wallet, concurrency, boot, tpc, tloc, commits, crashes,
                   crash_note, call>>

\* SyncResponseBlocks: the blocks are taken one after the other
HandlerSyncResponseBlocks ==
    /\ Running /\ hpc = "recv"
    /\ commits < MaxCommits
    /\ \E len \in 1..MaxSyncBlocks :
       \E from_height \in 1..(MaxHeight + 1 - len), body \in [1..len -> SyncBodies] :
        hloc' = [block |-> NoBlock,
                 rest |-> [k \in 1..len |->
                             LET n == from_height + k - 1
                                 proposer == get_proposer(GenesisValidators, n).pk
                             IN  NetBlock(TipHashOr(db), n, 1, body[k].txs,
                                          body[k].right_root, proposer, proposer)],
                 failed |-> FALSE]
    /\ hpc' = "sync_next"
    /\ UNCHANGED <<db, ws, mempool, wallet, concurrency, boot, tpc, tloc, sm_lock, history>>

\* one turn of the loop: a block that consensus rejects or that does not apply
\* is skipped and the loop goes on with the next one
HandlerSyncNext ==
    /\ Running /\ hpc = "sync_next"
    /\ IF Len(hloc.rest) = 0
       THEN /\ hpc' = "recv" /\ hloc' = HandlerIdle
            /\ UNCHANGED <<ws, sm_lock, pre>>
       ELSE ValidateAndApply(Head(hloc.rest), "sync_commit", "sync_next",
                             Tail(hloc.rest))
    /\ UNCHANGED <<db, mempool, wallet, concurrency, boot, tpc, tloc, commits, crashes,
                   crash_note, call>>

HandlerSyncCommit ==
    /\ Running /\ hpc = "sync_commit"
    /\ db' = commit_block(db, hloc.block, ws)
    /\ commits' = commits + 1
    /\ hpc' = "sync_next" /\ hloc' = [hloc EXCEPT !.block = NoBlock]
    /\ sm_lock' = "none" /\ pre' = NoSnapshot
    /\ UNCHANGED <<ws, mempool, wallet, concurrency, boot, tpc, tloc, crashes, crash_note, call>>

\* commit_block returns a storage error: the loop goes on with the next block
HandlerSyncCommitFails ==
    /\ Running /\ hpc = "sync_commit"
    /\ hpc' = "sync_next"
    /\ hloc' = [hloc EXCEPT !.block = NoBlock, !.failed = TRUE]
    /\ sm_lock' = "none" /\ pre' = NoSnapshot
    /\ UNCHANGED <<db, ws, mempool, wallet, concurrency, boot, tpc, tloc, commits, crashes,
                   crash_note, call>>

\* the limit of blocks per response (50 in the source), on the model's scale
\* of u64: like 50 it can be added to every height a chain reaches, and
\* overflows only for a from_height beyond them
max_blocks == U64Max - MaxHeight

\* the heights a peer may ask from: any u64
SyncFromHeights == 0..U64Max

NoBlocksMessage == [type |-> "SyncResponseNoBlocks"]
BlocksMessage(blocks) == [type |-> "SyncResponseBlocks", blocks |-> blocks]

\* SyncRequest: read the tip under the storage lock and build the response,
\* which holds the tip block if from_height is not above the tip's height.
\* end_height is computed first and not used; its sum exceeds u64 for the
\* largest from_height
HandlerSyncRequest ==
    /\ Running /\ hpc = "recv"
    /\ \E from_height \in SyncFromHeights, overflow_checks \in BOOLEAN :
        LET tip == get_chain_tip(db) IN
        IF ~tip.some
        THEN UNCHANGED <<hpc, call>>
        ELSE IF from_height + max_blocks > U64Max /\ overflow_checks
        THEN hpc' = "dead" /\ UNCHANGED call
        ELSE LET blocks_to_send ==
                     IF from_height <= tip.height /\ tip.hash \in DOMAIN db.blocks
                     THEN <<db.blocks[tip.hash]>>
                     ELSE <<>>
                 response_message ==
                     IF blocks_to_send = <<>> THEN NoBlocksMessage
                     ELSE BlocksMessage(blocks_to_send)
             IN  /\ hpc' = "send_sync_response"
                 /\ call' = [op |-> "sync_response", from_height |-> from_height,
                             current_height |-> tip.height,
                             message |-> response_message]
    /\ UNCHANGED <<db, ws, mempool, wallet, concurrency, boot, tpc, tloc, hloc, sm_lock, pre,
                   commits, crashes, crash_note>>

\* the response is handed to the network task
HandlerSendSyncResponse ==
    /\ Running /\ hpc = "send_sync_response"
    /\ hpc' = "recv"
    /\ call' = NoCall
    /\ UNCHANGED <<db, ws, mempool, wallet, concurrency, boot, tpc, tloc, hloc, sm_lock, pre,
                   commits, crashes, crash_note>>

-----------------------------------------------------------------------------

Next ==
    \/ Start \/ GenesisSetAccounts \/ GenesisPutBlock \/ GenesisPutHeader
    \/ GenesisPutTip \/ GenesisPutHeight \/ GenesisPutAccount \/ Crash
    \/ TickerTick \/ TickerCollect \/ TickerApply \/ TickerRemove
    \/ TickerCommit \/ TickerCommitFails
    \/ HandlerNewTransaction \/ HandlerNewBlock \/ HandlerRemove
    \/ HandlerCommit \/ HandlerCommitFails
    \/ HandlerSyncResponseBlocks \/ HandlerSyncNext
    \/ HandlerSyncCommit \/ HandlerSyncCommitFails

Spec == Init /\ [][Next]_vars

-----------------------------------------------------------------------------
(* The state machine on its own: one apply_block call on any world state *)

SMAddresses == {"v0", "u"}
SMAccounts == {Account(balance, nonce) : balance \in 0..U64Max, nonce \in {0, 1, U64Max}}
SMWorldStates ==
    UNION {[present -> SMAccounts] : present \in SUBSET SMAddresses}
SMTxs ==
    {Transaction(sender, recipient, amount, nonce, ZeroSignature) :
        sender \in SMAddresses, recipient \in {"v0", "v1"}, amount \in {1, 2},
        nonce \in {0, 1}}
SMTxLists == UNION {[1..len -> SMTxs] : len \in 0..MaxBlockTxs}

InitSM ==
    /\ ws \in SMWorldStates
    /\ call = NoCall
    /\ db = DbEmpty
    /\ mempool = MempoolNew
    /\ wallet = NodeWallet
    /\ ConcurrencyIdle
    /\ boot = [pc |-> "none", written |-> {}]
    /\ tpc = "sleep"
    /\ tloc = TickerIdle
    /\ hpc = "recv"
    /\ hloc = HandlerIdle
    /\ sm_lock = "none"
    /\ pre = NoSnapshot
    /\ commits = 0
    /\ crashes = 0
    /\ crash_note = NoCrash

SMApplyBlock ==
    /\ call = NoCall
    /\ \E transactions \in SMTxLists, overflow_checks \in BOOLEAN :
        LET block == Block(NoBlock.header, transactions)
            r == apply_block(ws, block, overflow_checks)
        IN  /\ ws' = r.ws
            /\ call' = [op |-> "apply_block", block |-> block, before |-> ws,
                        overflow_checks |-> overflow_checks, err |-> r.err]
    /\ UNCHANGED <<db, mempool, wallet, concurrency, boot, workers, pre, commits, crashes,
                   crash_note>>

SMApplyTransaction ==
    /\ call = NoCall
    /\ \E tx \in SMTxs, overflow_checks \in BOOLEAN :
        LET r == apply_transaction(ws, tx, overflow_checks) IN
        /\ ws' = r.ws
        /\ call' = [op |-> "apply_transaction", tx |-> tx, before |-> ws,
                    overflow_checks |-> overflow_checks, err |-> r.err]
    /\ UNCHANGED <<db, mempool, wallet, concurrency, boot, workers, pre, commits, crashes,
                   crash_note>>

NextSM == SMApplyBlock \/ SMApplyTransaction

SpecSM == InitSM /\ [][NextSM]_vars

-----------------------------------------------------------------------------
(* Properties *)

\* the state after the first k transactions of a list, applied one by one
RECURSIVE StateAfter(_, _, _, _)
StateAfter(world_state, transactions, k, overflow_checks) ==
    IF k = 0 THEN world_state
    ELSE apply_transaction(StateAfter(world_state, transactions, k - 1, overflow_checks),
                           transactions[k], overflow_checks).ws

\* transaction k is the first of the list that does not apply, and fails with e
FirstFailureIs(world_state, transactions, overflow_checks, k, e) ==
    /\ \A j \in 1..(k - 1) :
         apply_transaction(StateAfter(world_state, transactions, j - 1, overflow_checks),
                           transactions[j], overflow_checks).err = Ok
    /\ apply_transaction(StateAfter(world_state, transactions, k - 1, overflow_checks),
                         transactions[k], overflow_checks).err = e

\* C1: when apply_block returns an error, the world state equals the state
\* before the call and the error is the one of the first transaction that
\* does not apply.
C1_ApplyBlockErrorRestoresState ==
    (call.op = "apply_block" /\ IsError(call.err)) =>
        /\ ws = call.before
        /\ \E k \in 1..Len(call.block.transactions) :
             FirstFailureIs(call.before, call.block.transactions,
                            call.overflow_checks, k, call.err)

\* an error at the second transaction, after the first one was applied and
\* created its recipient's account
C1_Witness ==
    /\ call.op = "apply_block" /\ IsError(call.err)
    /\ Len(call.block.transactions) >= 2
    /\ call.block.transactions[1].recipient \notin DOMAIN call.before
    /\ FirstFailureIs(call.before, call.block.transactions, call.overflow_checks,
                      2, call.err)

\* the block of the worker that is inside its apply-and-commit section
Committing == IF sm_lock = "ticker" THEN tloc.block ELSE hloc.block

IsPrefix(short, long) ==
    Len(short) <= Len(long) /\ \A k \in 1..Len(short) : short[k] = long[k]

\* intrinsic properties, then the signature
validate(tx, sender_public_key) ==
    validate_intrinsic_properties(tx) = "Ok" /\ verify_signature(tx, sender_public_key)

\* C2: the stored chain-tip height never decreases, and every successful
\* commit_block makes it strictly greater.
C2_TipHeightIncreases ==
    [][(Running /\ get_chain_tip(db).some) =>
          /\ get_chain_tip(db').some
          /\ get_chain_tip(db').height >= get_chain_tip(db).height
          /\ commits' # commits =>
                get_chain_tip(db').height > get_chain_tip(db).height]_vars

\* `after` is `before` with exactly the writes of one commit_block(block,
\* world_state): the block under its hash, every account, tip and height
WholeCommit(before, after, block, world_state) ==
    LET hash == calculate_hash(block.header) IN
    /\ DOMAIN after.meta = {"tip", "height"}
    /\ after.meta["tip"] = hash
    /\ after.meta["height"] = block.header.block_number
    /\ DOMAIN after.blocks = DOMAIN before.blocks \cup {hash}
    /\ after.blocks[hash] = block
    /\ \A h \in DOMAIN before.blocks \ {hash} : after.blocks[h] = before.blocks[h]
    /\ DOMAIN after.state = DOMAIN before.state \cup DOMAIN world_state
    /\ \A a \in DOMAIN world_state : after.state[a] = world_state[a]
    /\ \A a \in DOMAIN before.state \ DOMAIN world_state :
         after.state[a] = before.state[a]
    /\ after.headers = before.headers

\* C3: commit_block is all or nothing.  While the workers run, storage changes
\* only by the whole write set of the commit_block in progress; a crash, and
\* the restart on a storage that has a tip, change nothing on disk.
C3_CommitBlockAtomic ==
    [][/\ (Running /\ db' # db) =>
            (sm_lock # "none" /\ WholeCommit(db, db', Committing, ws))
       /\ crashes' # crashes => db' = db
       /\ (boot.pc = "start" /\ get_chain_tip(db).some) => db' = db]_vars

\* the node runs again after a crash that hit a worker inside commit_block
C3_Witness ==
    /\ Running
    /\ get_chain_tip(db).some
    /\ (crash_note.tpc = "commit" \/ crash_note.hpc \in {"commit", "sync_commit"})

\* C4: outside the apply-and-commit sections the in-memory world state is
\* the account state in storage.
C4_MirrorEqualsStorage ==
    (Running /\ sm_lock = "none") => ws = db.state

\* C5: a NewBlock whose handling fails leaves world state, mempool and
\* storage as they were before the message.
C5_FailedNewBlockChangesNothing ==
    [][(hpc = "commit" /\ hpc' = "recv" /\ commits' = commits /\ crashes' = crashes) =>
          (ws' = pre.ws /\ mempool' = pre.mempool /\ db' = pre.db)]_vars

\* C6: a tick that is aborted leaves the world state as it was and every
\* pending transaction in the mempool, in the same order.
C6_AbortedTickLeavesState ==
    [][(tpc \in {"apply", "commit"} /\ tpc' = "sleep" /\ commits' = commits
          /\ crashes' = crashes) =>
          LET before == IF sm_lock = "ticker" THEN pre ELSE Snapshot IN
          /\ ws' = before.ws
          /\ IsPrefix(before.mempool.pending_queue, mempool'.pending_queue)
          /\ \A h \in DOMAIN before.mempool.transactions :
                h \in DOMAIN mempool'.transactions]_vars

\* C7: no received block whose tx_root differs from the Merkle root of its
\* transactions is applied or committed.
C7_MerkleMismatchNeverApplied ==
    /\ hpc \in {"remove", "commit", "sync_commit"} => verify_merkle_root(hloc.block) = Ok
    /\ \A h \in DOMAIN db.blocks : verify_merkle_root(db.blocks[h]) = Ok

\* C8: the world state changes through a received block only if every
\* transaction of the block has a non-zero amount and a signature that
\* verifies under its sender's key.
C8_OnlyValidTransactionsApplied ==
    [][(hpc \in {"recv", "sync_next"} /\ hpc' \in {"remove", "sync_commit"}) =>
          \A k \in 1..Len(hloc'.block.transactions) :
             validate(hloc'.block.transactions[k],
                      hloc'.block.transactions[k].sender)]_vars

\* C9: every block a running node commits has the block number of the tip
\* before the commit plus one, and that tip's hash as its parent hash.
C9_CommittedBlockExtendsTip ==
    [][(Running /\ commits' # commits) =>
          /\ get_chain_tip(db).some
          /\ Committing.header.block_number = get_chain_tip(db).height + 1
          /\ Committing.header.parent_hash = get_chain_tip(db).hash]_vars

-----------------------------------------------------------------------------
(* Block production under a fair ticker and a storage whose commits succeed *)

\* the interval timer fires for ever and commit_block never fails; peers
\* may still send transactions and blocks
NextFair ==
    \/ Start \/ GenesisSetAccounts \/ GenesisPutBlock \/ GenesisPutHeader
    \/ GenesisPutTip \/ GenesisPutHeight \/ GenesisPutAccount
    \/ TickerTick \/ TickerCollect \/ TickerApply \/ TickerRemove
    \/ TickerCommit
    \/ HandlerNewTransaction \/ HandlerNewBlock \/ HandlerRemove
    \/ HandlerCommit

Fairness ==
    /\ WF_vars(Start) /\ WF_vars(GenesisSetAccounts) /\ WF_vars(GenesisPutBlock)
    /\ WF_vars(GenesisPutHeader) /\ WF_vars(GenesisPutTip)
    /\ WF_vars(GenesisPutHeight) /\ WF_vars(GenesisPutAccount)
    /\ WF_vars(TickerTick) /\ WF_vars(TickerCollect) /\ WF_vars(TickerApply)
    /\ WF_vars(TickerRemove) /\ WF_vars(TickerCommit)
    /\ WF_vars(HandlerRemove) /\ WF_vars(HandlerCommit)

FairSpec == Init /\ [][NextFair]_vars /\ Fairness

\* the node is the proposer of the height after its tip
ScheduledProposer ==
    /\ Running
    /\ get_chain_tip(db).some
    /\ get_proposer(GenesisValidators, get_chain_tip(db).height + 1).err = Ok
    /\ get_proposer(GenesisValidators, get_chain_tip(db).height + 1).pk = wallet

\* a transaction that fails stateful validation against the current world
\* state is among the transactions the next block would take
StatefulInvalidPending ==
    LET transactions == get_pending_transactions(mempool, max_txs_per_block) IN
    \E k \in 1..Len(transactions) :
       validate_transaction_stateful(ws, transactions[k]) # Ok

\* C10: a pending transaction that fails stateful validation does not stall
\* the chain: the scheduled proposer of the first height, with such a
\* transaction among the first max_txs_per_block of its mempool, eventually
\* has a block of that height as its tip.
C10_InvalidPendingDoesNotStall ==
    (ScheduledProposer /\ get_chain_tip(db).height = 0 /\ StatefulInvalidPending)
       ~> (get_chain_tip(db).some /\ get_chain_tip(db).height >= 1)

-----------------------------------------------------------------------------
(* The mempool alone: add, remove, pending on one Mempool *)

\* a fourth transaction that the mempool admits
TxG == create_signed_transaction("u", "v0", 1, 0)

\* the payload of TxA under other signature bytes
TxS == [TxA EXCEPT !.signature = ZeroSignature]

MPTxs == {TxA, TxB, TxF, TxG, TxS, TxZ}

\* hash lists handed to remove_transactions: empty, single, several, one
\* hash twice, and the id of a transaction that is never admitted
RemoveLists ==
    {<<>>, <<id(TxA)>>, <<id(TxB)>>, <<id(TxF)>>, <<id(TxZ)>>,
     <<id(TxA), id(TxF)>>, <<id(TxB), id(TxB)>>, <<id(TxG), id(TxZ)>>}

\* `call` of a mempool run also carries the admission record: the number of
\* successful adds so far, and for every id admitted and not removed since,
\* the number of the add that admitted it
NoMempoolCall == [op |-> "none", clock |-> 0, stamp |-> EmptyMap]

InitMP ==
    /\ mempool = MempoolNew
    /\ call = NoMempoolCall
    /\ ws = EmptyMap
    /\ db = DbEmpty
    /\ wallet = NodeWallet
    /\ ConcurrencyIdle
    /\ boot = [pc |-> "none", written |-> {}]
    /\ tpc = "sleep"
    /\ tloc = TickerIdle
    /\ hpc = "recv"
    /\ hloc = HandlerIdle
    /\ sm_lock = "none"
    /\ pre = NoSnapshot
    /\ commits = 0
    /\ crashes = 0
    /\ crash_note = NoCrash

MPFrame == <<db, ws, wallet, concurrency, boot, workers, pre, commits, crashes, crash_note>>

MPAddTransaction ==
    /\ boot.pc = "none" /\ call.clock < MaxAdds
    /\ \E transaction \in MPTxs :
        LET r == add_transaction(mempool, MempoolCapacity, transaction)
            admitted == r.err = Ok
        IN  /\ mempool' = r.mp
            /\ call' = [op |-> "add", transaction |-> transaction, r |-> r,
                        before |-> mempool,
                        clock |-> IF admitted THEN call.clock + 1 ELSE call.clock,
                        stamp |-> IF admitted
                                  THEN Put(call.stamp, id(transaction), call.clock + 1)
                                  ELSE call.stamp]
    /\ UNCHANGED MPFrame

MPRemoveTransactions ==
    /\ boot.pc = "none" /\ "clock" \in DOMAIN call
    /\ \E hashes \in RemoveLists :
        /\ mempool' = remove_transactions(mempool, hashes)
        /\ call' = [op |-> "remove", hashes |-> hashes, before |-> mempool,
                    clock |-> call.clock,
                    stamp |-> Without(call.stamp,
                                      {hashes[k] : k \in 1..Len(hashes)})]
    /\ UNCHANGED MPFrame

\* a read under the read lock: the Mempool is borrowed immutably
MPGetPendingTransactions ==
    /\ boot.pc = "none" /\ "clock" \in DOMAIN call
    /\ \E max_txs \in 0..(MempoolCapacity + 1) :
        call' = [op |-> "pending", max_txs |-> max_txs, before |-> mempool,
                 result |-> get_pending_transactions(mempool, max_txs),
                 clock |-> call.clock, stamp |-> call.stamp]
    /\ UNCHANGED mempool
    /\ UNCHANGED MPFrame

MPContainsTransaction ==
    /\ boot.pc = "none" /\ "clock" \in DOMAIN call
    /\ \E transaction \in MPTxs :
        call' = [op |-> "contains", tx_hash |-> id(transaction),
                 before |-> mempool,
                 result |-> contains_transaction(mempool, id(transaction)),
                 clock |-> call.clock, stamp |-> call.stamp]
    /\ UNCHANGED mempool
    /\ UNCHANGED MPFrame

MPStatus ==
    /\ boot.pc = "none" /\ "clock" \in DOMAIN call
    /\ call' = [op |-> "status", before |-> mempool,
                result |-> status(mempool, MempoolCapacity),
                clock |-> call.clock, stamp |-> call.stamp]
    /\ UNCHANGED mempool
    /\ UNCHANGED MPFrame

NextMP ==
    \/ MPAddTransaction
    \/ MPRemoveTransactions
    \/ MPGetPendingTransactions
    \/ MPContainsTransaction
    \/ MPStatus

SpecMP == InitMP /\ [][NextMP]_vars

\* ids of a transaction list
Ids(transactions) == [k \in 1..Len(transactions) |-> id(transactions[k])]

\* C11: the ids that pending returns for a large enough max_n are exactly
\* the ids admitted and not removed since, each once, in the order of their
\* admission.
C11_FifoUnderRemoval ==
    "stamp" \in DOMAIN call =>
        LET ids == Ids(get_pending_transactions(mempool, MempoolCapacity)) IN
        /\ {ids[k] : k \in 1..Len(ids)} = DOMAIN call.stamp
        /\ Len(ids) = Cardinality(DOMAIN call.stamp)
        /\ \A i, j \in 1..Len(ids) :
             i < j => call.stamp[ids[i]] < call.stamp[ids[j]]

\* the first of three pending transactions was removed and the two behind
\* it are left
C11_Witness ==
    /\ "stamp" \in DOMAIN call /\ call.op = "remove"
    /\ Len(call.before.pending_queue) = 3
    /\ Len(call.hashes) = 1 /\ call.hashes[1] = call.before.pending_queue[1]
    /\ Len(mempool.pending_queue) = 2

\* C12: add fails with the zero-amount error whenever the amount is 0,
\* otherwise with PoolFull whenever the pool is at capacity, otherwise with
\* the duplicate error carrying the id whenever the id is present; otherwise
\* it puts the transaction in the map and at the back of the queue and
\* returns its id.  A failed add leaves the mempool as it was.
C12_AddReportsFailures ==
    call.op = "add" =>
        LET tx == call.transaction
            before == call.before
            r == call.r
        IN
        /\ IF tx.amount = 0
           THEN r.err = [kind |-> "ZeroAmountTransaction"]
           ELSE IF Len(before.pending_queue) >= MempoolCapacity
           THEN r.err = [kind |-> "PoolFull"]
           ELSE IF contains_transaction(before, id(tx))
           THEN r.err = [kind |-> "TransactionExists", id |-> id(tx)]
           ELSE /\ r.err = Ok /\ r.id = id(tx)
                /\ mempool.pending_queue = Append(before.pending_queue, id(tx))
                /\ mempool.transactions = Put(before.transactions, id(tx), tx)
        /\ r.err # Ok => mempool = before

\* C13: status never reports more than max_transactions pending
\* transactions, and an add at capacity is rejected with every admitted
\* transaction left in place.
C13_BoundedNoEviction ==
    "stamp" \in DOMAIN call =>
        /\ status(mempool, MempoolCapacity).pending_transactions_count
             <= status(mempool, MempoolCapacity).capacity
        /\ (call.op = "add" /\ Len(call.before.pending_queue) >= MempoolCapacity) =>
             (call.r.err # Ok /\ mempool = call.before)

\* a transaction that is not in the pool was offered to a full pool
C13_Witness ==
    /\ call.op = "add"
    /\ Len(call.before.pending_queue) = MempoolCapacity
    /\ call.transaction.amount # 0
    /\ ~contains_transaction(call.before, id(call.transaction))

\* C14: pending(max_n) returns the first min(max_n, count) admitted
\* transactions in arrival order, the empty list for max_n = 0, and leaves
\* map, queue and status as they were; a second call returns the same list.
C14_PendingIsNonDestructive ==
    call.op = "pending" =>
        LET count == Cardinality(DOMAIN call.stamp)
            n == IF call.max_txs < count THEN call.max_txs ELSE count
            ids == Ids(call.result)
        IN
        /\ Len(call.result) = n
        /\ \A k \in 1..n :
             /\ ids[k] \in DOMAIN call.stamp
             \* exactly k - 1 admitted ids are older than the k-th returned
             /\ Cardinality({h \in DOMAIN call.stamp :
                               call.stamp[h] < call.stamp[ids[k]]}) = k - 1
        /\ mempool = call.before
        /\ status(mempool, MempoolCapacity) = status(call.before, MempoolCapacity)
        /\ get_pending_transactions(mempool, call.max_txs) = call.result

\* fewer transactions were asked for than the pool holds, after a removal
C14_Witness ==
    /\ call.op = "pending"
    /\ Len(mempool.pending_queue) = MempoolCapacity
    /\ call.max_txs = MempoolCapacity - 1
    /\ call.clock > MempoolCapacity

\* C15: remove(ids) removes exactly the listed ids: none of them is in the
\* mempool afterwards, every other transaction is still there, and ids that
\* are not in the mempool are ignored.
C15_RemoveExactlyListed ==
    call.op = "remove" =>
        LET listed == {call.hashes[k] : k \in 1..Len(call.hashes)}
            before == call.before
        IN
        /\ \A h \in listed : ~contains_transaction(mempool, h)
        /\ \A h \in DOMAIN before.transactions \ listed :
             /\ contains_transaction(mempool, h)
             /\ mempool.transactions[h] = before.transactions[h]
        /\ DOMAIN mempool.transactions \subseteq DOMAIN before.transactions
        /\ (\A h \in listed : ~contains_transaction(before, h)) => mempool = before

\* a list with one id that is in the mempool and one that is not
C15_Witness ==
    /\ call.op = "remove" /\ Len(call.hashes) = 2
    /\ contains_transaction(call.before, call.hashes[1])
    /\ ~contains_transaction(call.before, call.hashes[2])
    /\ Len(call.before.pending_queue) >= 2

-----------------------------------------------------------------------------
(* Properties of the state machine's transaction semantics *)

AccountOr(world_state, address) ==
    IF address \in DOMAIN world_state THEN world_state[address] ELSE AccountDefault

\* C17: a successful apply_transaction debits the amount from the sender,
\* credits it to the recipient (an absent recipient starts from balance 0 and
\* nonce 0), raises the sender's nonce by exactly 1, leaves the recipient's
\* nonce alone and changes no other account.
C17_ApplyTransactionEffect ==
    (call.op = "apply_transaction" /\ call.err = Ok) =>
        LET tx == call.tx
            before == call.before
            sender == address_from_public_key(tx.sender)
            recipient == tx.recipient
        IN
        /\ DOMAIN ws = DOMAIN before \cup {recipient}
        /\ \A a \in DOMAIN before \ {sender, recipient} : ws[a] = before[a]
        /\ ws[sender].nonce = before[sender].nonce + 1
        /\ IF sender = recipient
           THEN ws[sender].balance = before[sender].balance
           ELSE /\ ws[sender].balance = before[sender].balance - tx.amount
                /\ ws[recipient].balance
                     = AccountOr(before, recipient).balance + tx.amount
                /\ ws[recipient].nonce = AccountOr(before, recipient).nonce

\* number of transactions of a list that an address sent
RECURSIVE SentBy(_, _, _)
SentBy(transactions, address, k) ==
    IF k = 0 THEN 0
    ELSE SentBy(transactions, address, k - 1)
           + (IF address_from_public_key(transactions[k].sender) = address
              THEN 1 ELSE 0)

\* C18: after a successful apply_block the nonce of every account is its
\* nonce before the block plus the number of the block's transactions it
\* sent; an account that sent none keeps its nonce.
C18_NonceMonotonicity ==
    (call.op = "apply_block" /\ call.err = Ok) =>
        \A a \in DOMAIN ws :
           ws[a].nonce = AccountOr(call.before, a).nonce
                           + SentBy(call.block.transactions, a,
                                    Len(call.block.transactions))

\* two transactions of one sender applied, beside an account that sent none
C18_Witness ==
    /\ call.op = "apply_block" /\ call.err = Ok
    /\ Len(call.block.transactions) = 2
    /\ call.block.transactions[1].sender = call.block.transactions[2].sender
    /\ \E a \in DOMAIN call.before :
         SentBy(call.block.transactions, a, 2) = 0

\* sum of the balances of the accounts of S
RECURSIVE SumOfBalances(_, _)
SumOfBalances(world_state, S) ==
    IF S = {} THEN 0
    ELSE LET a == CHOOSE x \in S : TRUE IN
         world_state[a].balance + SumOfBalances(world_state, S \ {a})

TotalBalance(world_state) == SumOfBalances(world_state, DOMAIN world_state)

\* C19: the sum of all balances after apply_block equals the sum before,
\* whether apply_block returns success or an error.
C19_ConservationOfValue ==
    (call.op = "apply_block" /\ call.err # Panic) =>
        TotalBalance(ws) = TotalBalance(call.before)

\* the transaction passes validation and the credit of its amount to the
\* recipient exceeds the largest u64
CreditOverflows(world_state, tx) ==
    /\ validate_transaction_stateful(world_state, tx) = Ok
    /\ address_from_public_key(tx.sender) # tx.recipient
    /\ AccountOr(world_state, tx.recipient).balance + tx.amount > U64Max

\* C20: a credit that exceeds 2^64 - 1 is detected: the transaction is
\* rejected with an error and the whole block is reverted; no balance wraps
\* around and the process is not aborted.
C20_CreditOverflowDetected ==
    /\ (call.op = "apply_transaction" /\ CreditOverflows(call.before, call.tx)) =>
          (IsError(call.err) /\ ws = call.before)
    /\ (call.op = "apply_block"
          /\ \E k \in 1..Len(call.block.transactions) :
               /\ \A j \in 1..(k - 1) :
                    apply_transaction(
                        StateAfter(call.before, call.block.transactions, j - 1,
                                   call.overflow_checks),
                        call.block.transactions[j], call.overflow_checks).err = Ok
               /\ CreditOverflows(StateAfter(call.before, call.block.transactions,
                                             k - 1, call.overflow_checks),
                                  call.block.transactions[k])) =>
          (IsError(call.err) /\ ws = call.before)

-----------------------------------------------------------------------------
(* The consensus engine alone: one call on an engine built from a validator
   list *)

MaxValidators == 3
MaxProposerHeight == 5

\* the validator lists ConsensusEngine::new may be given
ValidatorLists ==
    UNION {[1..n -> Keys] : n \in 0..MaxValidators}

\* headers offered to validate_proposer and validate_block
CEHeaders ==
    {NetBlock(ZeroHash, n, GenesisTimestamp, <<>>, TRUE, validator, signer).header :
        n \in 0..MaxProposerHeight, validator \in Keys, signer \in Signers}

\* the heads fork_choice is asked about: two heights, two timestamps, and for
\* each of the four hashes a signed and a zero-signed copy
FCHeaders ==
    {NetBlock(ZeroHash, n, t, <<>>, TRUE, "v0", signer).header :
        n \in {1, 2}, t \in {1, 2}, signer \in {"v0", "zeros"}}

FCHashes == {calculate_hash(h) : h \in FCHeaders}

\* the total orders of the hashes of the heads
HashOrders ==
    {f \in [FCHashes -> 1..Cardinality(FCHashes)] :
        \A h1, h2 \in FCHashes : f[h1] = f[h2] => h1 = h2}

InitCE ==
    /\ \E validators \in ValidatorLists, hash_order \in HashOrders :
         call = [op |-> "new", validators |-> validators,
                 hash_order |-> hash_order]
    /\ ws = EmptyMap
    /\ db = DbEmpty
    /\ mempool = MempoolNew
    /\ wallet = NodeWallet
    /\ ConcurrencyIdle
    /\ boot = [pc |-> "none", written |-> {}]
    /\ tpc = "sleep"
    /\ tloc = TickerIdle
    /\ hpc = "recv"
    /\ hloc = HandlerIdle
    /\ sm_lock = "none"
    /\ pre = NoSnapshot
    /\ commits = 0
    /\ crashes = 0
    /\ crash_note = NoCrash

CEFrame == <<db, ws, mempool, wallet, concurrency, boot, workers, pre, commits, crashes,
             crash_note>>

CEGetProposer ==
    /\ call.op = "new"
    /\ \E height \in 0..MaxProposerHeight :
         call' = [op |-> "get_proposer", validators |-> call.validators,
                  hash_order |-> call.hash_order, height |-> height,
                  r |-> get_proposer(call.validators, height)]
    /\ UNCHANGED CEFrame

CEValidateProposer ==
    /\ call.op = "new"
    /\ \E block_header \in CEHeaders :
         call' = [op |-> "validate_proposer", validators |-> call.validators,
                  hash_order |-> call.hash_order, header |-> block_header,
                  r |-> validate_proposer(call.validators, block_header)]
    /\ UNCHANGED CEFrame

CEValidateBlock ==
    /\ call.op = "new"
    /\ \E block_header \in CEHeaders :
         call' = [op |-> "validate_block", validators |-> call.validators,
                  hash_order |-> call.hash_order, header |-> block_header,
                  r |-> validate_block(call.validators,
                                       Block(block_header, <<>>))]
    /\ UNCHANGED CEFrame

CEForkChoice ==
    /\ call.op = "new"
    /\ \E current_head \in FCHeaders, new_head \in FCHeaders :
         call' = [op |-> "fork_choice", validators |-> call.validators,
                  hash_order |-> call.hash_order,
                  current_head |-> current_head, new_head |-> new_head,
                  r |-> fork_choice(call.hash_order, current_head, new_head)]
    /\ UNCHANGED CEFrame

NextCE == CEGetProposer \/ CEValidateProposer \/ CEValidateBlock \/ CEForkChoice

SpecCE == InitCE /\ [][NextCE]_vars

\* C21: for a non-empty validator list of length n the proposer of height h
\* is validators[h mod n], so the proposer of h + n is the proposer of h and
\* the heights 0..n-1 select the list positions one after the other; for an
\* empty list get_proposer returns an error.
C21_RoundRobin ==
    call.op = "get_proposer" =>
        LET n == Len(call.validators) IN
        IF n = 0 THEN IsError(call.r.err)
        ELSE /\ call.r.err = Ok
             /\ call.r.pk = call.validators[(call.height % n) + 1]
             /\ get_proposer(call.validators, call.height + n) = call.r
             /\ [k \in 1..n |-> get_proposer(call.validators, k - 1).pk]
                    = call.validators

\* a list of three different validators asked beyond its first round
C21_Witness ==
    /\ call.op = "get_proposer"
    /\ Len(call.validators) = Cardinality(Keys)
    /\ {call.validators[k] : k \in 1..Len(call.validators)} = Keys
    /\ call.height >= Len(call.validators)
    /\ call.r.err = Ok

\* the address of the validator scheduled for the header's height
ExpectedAddress(validators, header) ==
    address_from_public_key(
        validators[(header.block_number % Len(validators)) + 1])

IsValidatorAddress(validators, address) ==
    \E k \in 1..Len(validators) :
        address_from_public_key(validators[k]) = address

\* C22: a header whose validator is in the set but is not the proposer of
\* its height gets InvalidProposer {expected, got} from validate_proposer
\* and from validate_block, whatever its signature is; validate_proposer
\* returns Ok exactly when the header's validator is the expected address.
C22_WrongProposerRejected ==
    /\ (/\ call.op \in {"validate_proposer", "validate_block"}
        /\ IsValidatorAddress(call.validators, call.header.validator)
        /\ call.header.validator # ExpectedAddress(call.validators, call.header))
          => call.r = [kind |-> "InvalidProposer",
                       expected |-> ExpectedAddress(call.validators, call.header),
                       got |-> call.header.validator]
    /\ call.op = "validate_proposer" =>
          (call.r = Ok <=>
              /\ Len(call.validators) > 0
              /\ call.header.validator
                   = ExpectedAddress(call.validators, call.header))

\* validate_block rejects a header that a validator other than the scheduled
\* one signed correctly
C22_Witness ==
    /\ call.op = "validate_block"
    /\ IsValidatorAddress(call.validators, call.header.validator)
    /\ call.header.signature
         = Sign(call.header.validator, calculate_hash(call.header))
    /\ call.r # Ok
    /\ call.r.kind = "InvalidProposer"

\* C23: validate_block on a header whose validator is the address of no key
\* of a non-empty validator set fails with ProposerNotInValidatorSet.
C23_UnknownValidatorError ==
    (/\ call.op = "validate_block"
     /\ Len(call.validators) > 0
     /\ ~IsValidatorAddress(call.validators, call.header.validator))
       => call.r = [kind |-> "ProposerNotInValidatorSet"]

\* C24: for a header whose validator is the proposer of its height,
\* validate_block returns Ok exactly when the signature is that proposer's
\* signature over the hash of the header with the signature cleared, and
\* fails with InvalidSignature otherwise, both for a signature that does not
\* verify and for one that is not 64 bytes long.
C24_SignatureChecked ==
    (/\ call.op = "validate_block"
     /\ Len(call.validators) > 0
     /\ call.header.validator = ExpectedAddress(call.validators, call.header))
       => LET proposer ==
                  call.validators[(call.header.block_number
                                     % Len(call.validators)) + 1]
              signing_hash ==
                  calculate_hash([call.header EXCEPT !.signature = EmptySignature])
          IN  IF call.header.signature = Sign(proposer, signing_hash)
              THEN call.r = Ok
              ELSE call.r = [kind |-> "InvalidSignature"]

\* C25: fork_choice returns the same header whichever way round its two
\* arguments are given, also for two headers of one height and one hash
\* that differ in the signature.
C25_ForkChoiceSymmetric ==
    call.op = "fork_choice" =>
        call.r = fork_choice(call.hash_order, call.new_head, call.current_head)

\* C26: fork_choice returns the header with the larger block_number; at
\* equal block_numbers it returns the one with the smaller hash; it returns
\* current when the candidate is lower, or level with a hash not smaller
\* than current's.
C26_ForkChoiceRule ==
    call.op = "fork_choice" =>
        LET current == call.current_head
            candidate == call.new_head
            smaller == call.hash_order[calculate_hash(candidate)]
                         < call.hash_order[calculate_hash(current)]
        IN  /\ candidate.block_number > current.block_number
                 => call.r = candidate
            /\ candidate.block_number < current.block_number
                 => call.r = current
            /\ (candidate.block_number = current.block_number /\ smaller)
                 => call.r = candidate
            /\ (candidate.block_number = current.block_number /\ ~smaller)
                 => call.r = current

\* a tie of heights that the candidate wins by its smaller hash
C26_Witness ==
    /\ call.op = "fork_choice"
    /\ call.new_head.block_number = call.current_head.block_number
    /\ calculate_hash(call.new_head) # calculate_hash(call.current_head)
    /\ call.r = call.new_head
    /\ call.r # call.current_head

-----------------------------------------------------------------------------
(* Storage of a running node *)

\* the addresses whose accounts are written with a block: the initial
\* balances for the genesis block, and for a committed block at least the
\* senders and recipients of its transactions
AccountsWrittenWith(block) ==
    IF block = create_genesis_block THEN DOMAIN InitialBalances
    ELSE {address_from_public_key(block.transactions[k].sender) :
             k \in 1..Len(block.transactions)}
         \cup {block.transactions[k].recipient : k \in 1..Len(block.transactions)}

\* C27: whenever get_chain_tip returns (hash, height), storage holds under
\* hash a block whose block_number is height, and the accounts written with
\* that block are in storage; this holds after genesis initialization, after
\* any commits, and after a crash between two writes of genesis
\* initialization.  It is read here outside the run of genesis
\* initialization itself: at process start and while the node runs.
C27_ChainTipInvariant ==
    (boot.pc \in {"start", "running"} /\ get_chain_tip(db).some) =>
        LET tip == get_chain_tip(db) IN
        /\ tip.hash \in DOMAIN db.blocks
        /\ db.blocks[tip.hash].header.block_number = tip.height
        /\ AccountsWrittenWith(db.blocks[tip.hash]) \subseteq DOMAIN db.state

-----------------------------------------------------------------------------
(* The node with any wallet, answering sync requests *)

\* a node started with the key of a validator or, as an observer, with a key
\* that is not in the validator set
InitNet ==
    /\ db = DbEmpty
    /\ ws = EmptyMap
    /\ mempool = MempoolNew
    /\ wallet \in Keys
    /\ ConcurrencyIdle
    /\ boot = [pc |-> "start", written |-> {}]
    /\ tpc = "sleep"
    /\ tloc = TickerIdle
    /\ hpc = "recv"
    /\ hloc = HandlerIdle
    /\ sm_lock = "none"
    /\ pre = NoSnapshot
    /\ commits = 0
    /\ crashes = 0
    /\ crash_note = NoCrash
    /\ call = NoCall

NextNet ==
    \/ Start \/ GenesisSetAccounts \/ GenesisPutBlock \/ GenesisPutHeader
    \/ GenesisPutTip \/ GenesisPutHeight \/ GenesisPutAccount
    \/ TickerTick \/ TickerCollect \/ TickerApply \/ TickerRemove
    \/ TickerCommit
    \/ HandlerNewTransaction \/ HandlerNewBlock \/ HandlerRemove
    \/ HandlerCommit
    \/ HandlerSyncRequest \/ HandlerSendSyncResponse

SpecNet == InitNet /\ [][NextNet]_vars

\* block production alone, beside blocks that arrive from the other
\* validators: no transactions are submitted, so the blocks built are empty
NextProposer ==
    \/ Start \/ GenesisSetAccounts \/ GenesisPutBlock \/ GenesisPutHeader
    \/ GenesisPutTip \/ GenesisPutHeight \/ GenesisPutAccount
    \/ TickerTick \/ TickerCollect \/ TickerApply \/ TickerRemove
    \/ TickerCommit
    \/ HandlerNewBlock \/ HandlerRemove \/ HandlerCommit

SpecProposer == InitNet /\ [][NextProposer]_vars

\* the address of the validator the round-robin schedule gives a height
ScheduledAddress(height) ==
    address_from_public_key(
        GenesisValidators[(height % Len(GenesisValidators)) + 1])

\* C28: a tick goes on to produce a block only if the node's wallet address
\* is the address of the proposer of tip.height + 1; the block it builds has
\* block_number = tip.height + 1, parent_hash = the tip hash read at the start
\* of the tick and validator = the node's address, and so has every block the
\* production task commits; a node whose key is not in the validator set
\* never leaves the start of the tick.
C28_OnlyScheduledProposerProduces ==
    [][/\ (tpc = "sleep" /\ tpc' = "collect") =>
             /\ get_chain_tip(db).some
             /\ tloc'.height = get_chain_tip(db).height
             /\ tloc'.tip_hash = get_chain_tip(db).hash
             /\ address_from_public_key(wallet)
                  = ScheduledAddress(get_chain_tip(db).height + 1)
       /\ (tpc = "collect" /\ tpc' = "apply") =>
             /\ tloc'.block.header.block_number = tloc.height + 1
             /\ tloc'.block.header.parent_hash = tloc.tip_hash
             /\ tloc'.block.header.validator = address_from_public_key(wallet)
       /\ (tpc = "commit" /\ commits' = commits + 1) =>
             /\ calculate_hash(tloc.block.header) \in DOMAIN db'.blocks
             /\ tloc.block.header.validator = address_from_public_key(wallet)
             /\ tloc.block.header.validator
                  = ScheduledAddress(tloc.block.header.block_number)
       /\ (\A k \in 1..Len(GenesisValidators) : GenesisValidators[k] # wallet)
             => tpc' = "sleep"
      ]_vars

\* the first validator of the list has committed its block of height 2 on a
\* block of height 1 that came from the other validator
C28_Witness ==
    /\ wallet = GenesisValidators[1]
    /\ ConcurrencyIdle
    /\ tpc = "sleep"
    /\ get_chain_tip(db).some
    /\ get_chain_tip(db).height = Len(GenesisValidators)
    /\ db.blocks[get_chain_tip(db).hash].header.validator
         = address_from_public_key(wallet)

\* the block numbers of a list of blocks
BlockNumbers(blocks) == [k \in 1..Len(blocks) |-> blocks[k].header.block_number]

\* C29: the reply to SyncRequest {from_height} is a run of at most
\* max_blocks blocks whose block numbers go up by one from from_height to
\* the smaller of the tip height and from_height + max_blocks - 1; when
\* from_height is above the tip height the reply is SyncResponseNoBlocks.
C29_SyncReplyIsContiguousRun ==
    call.op = "sync_response" =>
        IF call.from_height > call.current_height
        THEN call.message = NoBlocksMessage
        ELSE LET last == IF call.current_height < call.from_height + max_blocks - 1
                         THEN call.current_height
                         ELSE call.from_height + max_blocks - 1
             IN  /\ call.message.type = "SyncResponseBlocks"
                 /\ BlockNumbers(call.message.blocks)
                      = [k \in 1..(last - call.from_height + 1) |->
                            call.from_height + k - 1]

\* C30: the blocks of a SyncResponseBlocks message are taken in list order
\* and processing stops at the first block that fails validation,
\* application or commit: no block that follows a failed block of the same
\* response is applied or committed.
C30_SyncStopsAtFirstFailure ==
    hloc.failed => hpc \notin {"sync_commit"}

-----------------------------------------------------------------------------
(* Transactions and the blocks that include them *)

\* the block a commit step writes: the ticker's or the message task's
CommittedBlock ==
    IF tpc = "commit" /\ tpc' = "sleep" THEN tloc.block ELSE hloc.block

\* C31: after a node commits a block by any path (own production, NewBlock
\* or SyncResponseBlocks), none of the block's transactions is left in the
\* node's mempool.
C31_CommittedTransactionsLeaveMempool ==
    [][commits' = commits + 1 =>
          \A k \in 1..Len(CommittedBlock.transactions) :
             ~contains_transaction(mempool', id(CommittedBlock.transactions[k]))
      ]_vars

-----------------------------------------------------------------------------
(* One state machine through a sequence of calls *)

MaxCalls == 3

\* the transactions offered again and again: the first two of either
\* sender to the other
SeqTxs ==
    {Transaction(sender, CHOOSE recipient \in SMAddresses : recipient # sender,
                 1, nonce, ZeroSignature) :
        sender \in SMAddresses, nonce \in {0, 1}}

SeqTxLists == UNION {[1..len -> SeqTxs] : len \in 0..MaxBlockTxs}

\* a state machine as genesis leaves it: any balances, every nonce 0
SeqWorldStates ==
    UNION {[present -> {Account(balance, 0) : balance \in 0..U64Max}] :
              present \in SUBSET SMAddresses}

\* call.applied: the payloads applied successfully so far; call.offered: the
\* transactions of the last call; call.newly: those it applied successfully
InitSeq ==
    /\ ws \in SeqWorldStates
    /\ call = [op |-> "new", n |-> 0, applied |-> {}, offered |-> <<>>,
               newly |-> <<>>]
    /\ db = DbEmpty
    /\ mempool = MempoolNew
    /\ wallet = NodeWallet
    /\ ConcurrencyIdle
    /\ boot = [pc |-> "none", written |-> {}]
    /\ tpc = "sleep"
    /\ tloc = TickerIdle
    /\ hpc = "recv"
    /\ hloc = HandlerIdle
    /\ sm_lock = "none"
    /\ pre = NoSnapshot
    /\ commits = 0
    /\ crashes = 0
    /\ crash_note = NoCrash

Payloads(transactions) ==
    {data_to_sign_hash(transactions[k]) : k \in 1..Len(transactions)}

SeqRecord(op, r, transactions) ==
    [op |-> op, n |-> call.n + 1, offered |-> transactions,
     applied |-> IF r.err = Ok THEN call.applied \cup Payloads(transactions)
                 ELSE call.applied,
     newly |-> IF r.err = Ok THEN transactions ELSE <<>>]

SeqApplyTransaction ==
    /\ call.n < MaxCalls
    /\ \E tx \in SeqTxs, overflow_checks \in BOOLEAN :
        LET r == apply_transaction(ws, tx, overflow_checks) IN
        /\ ws' = r.ws
        /\ call' = SeqRecord("apply_transaction", r, <<tx>>)
    /\ UNCHANGED <<db, mempool, wallet, concurrency, boot, workers, pre, commits, crashes,
                   crash_note>>

SeqApplyBlock ==
    /\ call.n < MaxCalls
    /\ \E transactions \in SeqTxLists, overflow_checks \in BOOLEAN :
        LET r == apply_block(ws, Block(NoBlock.header, transactions),
                             overflow_checks) IN
        /\ ws' = r.ws
        /\ call' = SeqRecord("apply_block", r, transactions)
    /\ UNCHANGED <<db, mempool, wallet, concurrency, boot, workers, pre, commits, crashes,
                   crash_note>>

NextSeq == SeqApplyTransaction \/ SeqApplyBlock

SpecSeq == InitSeq /\ [][NextSeq]_vars

\* C32: over any sequence of apply_transaction and apply_block calls on one
\* state machine, a transaction (sender, recipient, amount, nonce) is
\* applied successfully at most once: what a call applies was not applied
\* by an earlier call, nor twice by this one.
C32_AppliedAtMostOnce ==
    [][\A k \in 1..Len(call'.newly) :
          /\ data_to_sign_hash(call'.newly[k]) \notin call.applied
          /\ \A j \in 1..(k - 1) :
                data_to_sign_hash(call'.newly[j]) # data_to_sign_hash(call'.newly[k])
      ]_vars

\* a transaction that was applied is offered again after the sender's next
\* one and applies nothing
C32_Witness ==
    /\ Cardinality(call.applied) >= 2
    /\ Payloads(call.offered) \cap call.applied # {}
    /\ call.newly = <<>>
    /\ \E a \in DOMAIN ws : ws[a].nonce >= 2

-----------------------------------------------------------------------------
(* Transaction identity *)

\* a stored transaction has the payload (sender, recipient, amount, nonce)
\* of tx
PayloadStored(mp, tx) ==
    \E h \in DOMAIN mp.transactions :
        data_to_sign_hash(mp.transactions[h]) = data_to_sign_hash(tx)

\* C33: the transaction ID does not depend on the signature: it is the
\* signing hash of the payload, so two transactions with the same (sender,
\* recipient, amount, nonce) and different signature bytes have the same ID
\* and the mempool rejects the second of them as a duplicate.
C33_IdIndependentOfSignature ==
    call.op = "add" =>
        /\ id(call.transaction) = data_to_sign_hash(call.transaction)
        /\ (PayloadStored(call.before, call.transaction)
              /\ Len(call.before.pending_queue) < MempoolCapacity)
              => (call.r.err # Ok /\ call.r.err.kind = "TransactionExists")

-----------------------------------------------------------------------------
(* calculate_merkle_root as a function of the transaction list *)

MaxMerkleLen == 5

MerkleTxs == {TxA, TxB, TxF, TxG, TxS}

RECURSIVE MerkleTxLists(_)
MerkleTxLists(n) ==
    IF n = 0 THEN {<<>>}
    ELSE LET shorter == MerkleTxLists(n - 1) IN
         shorter \cup {Append(l, tx) : l \in {m \in shorter : Len(m) = n - 1},
                                       tx \in MerkleTxs}

InitMerkle ==
    /\ call \in {[op |-> "new", transactions |-> l] :
                    l \in MerkleTxLists(MaxMerkleLen)}
    /\ db = DbEmpty
    /\ ws = EmptyMap
    /\ mempool = MempoolNew
    /\ wallet = NodeWallet
    /\ ConcurrencyIdle
    /\ boot = [pc |-> "none", written |-> {}]
    /\ tpc = "sleep"
    /\ tloc = TickerIdle
    /\ hpc = "recv"
    /\ hloc = HandlerIdle
    /\ sm_lock = "none"
    /\ pre = NoSnapshot
    /\ commits = 0
    /\ crashes = 0
    /\ crash_note = NoCrash

MerkleCalculate ==
    /\ call.op = "new"
    /\ call' = [op |-> "calculate_merkle_root",
                transactions |-> call.transactions,
                ids |-> [k \in 1..Len(call.transactions) |->
                            id(call.transactions[k])],
                root |-> calculate_merkle_root(call.transactions)]
    /\ UNCHANGED <<db, ws, mempool, wallet, concurrency, boot, workers, pre, commits,
                   crashes, crash_note>>

\* the block built on the list verifies exactly under the calculated root
MerkleVerify ==
    /\ call.op = "calculate_merkle_root"
    /\ \E tx_root \in {call.root, ZeroHash} :
        call' = [op |-> "verify_merkle_root",
                 transactions |-> call.transactions,
                 tx_root |-> tx_root,
                 root |-> call.root,
                 r |-> verify_merkle_root(
                          Block([NoBlock.header EXCEPT !.tx_root = tx_root],
                                call.transactions))]
    /\ UNCHANGED <<db, ws, mempool, wallet, concurrency, boot, workers, pre, commits,
                   crashes, crash_note>>

NextMerkle == MerkleCalculate \/ MerkleVerify

SpecMerkle == InitMerkle /\ [][NextMerkle]_vars

H2(left, right) == Sha256(<<left, right>>)

\* the reference: a level of one hash is the root; a longer level of odd
\* length gets its last hash again, and the pairs of the level form the next
RECURSIVE ReferenceLevel(_)
ReferenceLevel(level) ==
    IF Len(level) = 1 THEN level[1]
    ELSE LET padded == IF Len(level) % 2 = 1
                       THEN Append(level, level[Len(level)]) ELSE level
         IN  ReferenceLevel([k \in 1..(Len(padded) \div 2) |->
                                H2(padded[2 * k - 1], padded[2 * k])])

ReferenceRoot(ids) ==
    IF Len(ids) = 0 THEN Sha256(<<>>)
    ELSE IF Len(ids) = 1 THEN H2(ids[1], ids[1])
    ELSE ReferenceLevel(ids)

\* C34: the Merkle root of an ordered list of transaction IDs is the
\* reference definition: H(empty) for no ID, H(id || id) for one, otherwise
\* pair-wise hashing with the last hash duplicated at every level of odd
\* length above one; [a,b,c] gives H(H(a||b) || H(c||c)) and [a,b,c,d,e]
\* gives H(H(H(a||b) || H(c||d)) || H(H(e||e) || H(e||e))).
C34_MerkleRootIsReference ==
    call.op = "calculate_merkle_root" =>
        LET x == call.ids IN
        /\ call.root = ReferenceRoot(x)
        /\ Len(x) = 3 =>
              call.root = H2(H2(x[1], x[2]), H2(x[3], x[3]))
        /\ Len(x) = 5 =>
              call.root = H2(H2(H2(x[1], x[2]), H2(x[3], x[4])),
                             H2(H2(x[5], x[5]), H2(x[5], x[5])))

\* five different IDs have been reduced to a root
C34_Witness ==
    /\ call.op = "calculate_merkle_root"
    /\ Len(call.ids) = 5
    /\ Cardinality({call.ids[k] : k \in 1..5}) = 5
    /\ call.root = H2(H2(H2(call.ids[1], call.ids[2]),
                         H2(call.ids[3], call.ids[4])),
                      H2(H2(call.ids[5], call.ids[5]),
                         H2(call.ids[5], call.ids[5])))

-----------------------------------------------------------------------------
(* run_node from the opening of storage to the end of initialization *)

\* the writes of initialize_genesis_state, in the order it makes them
GenesisPuts ==
    <<PutOp("blocks", calculate_hash(create_genesis_block.header),
            create_genesis_block),
      PutOp("headers", create_genesis_block.header.block_number,
            create_genesis_block.header),
      PutOp("meta", "tip", calculate_hash(create_genesis_block.header)),
      PutOp("meta", "height", create_genesis_block.header.block_number)>>
        \o account_puts([a \in DOMAIN InitialBalances |->
                            Account(InitialBalances[a], 0)])

GenesisDb == write(DbEmpty, GenesisPuts)

GenesisWorldState ==
    [a \in DOMAIN InitialBalances |-> Account(InitialBalances[a], 0)]

\* storage after the block of height 1 with these transactions was committed
ChainDb(txs, t) ==
    LET proposer == get_proposer(GenesisValidators, 1).pk
        block == NetBlock(calculate_hash(create_genesis_block.header), 1, t,
                          txs, TRUE, address_from_public_key(proposer),
                          proposer)
    IN  commit_block(GenesisDb, block,
                     apply_block(GenesisWorldState, block, TRUE).ws)

\* what a node can find on disk when it starts: nothing, what an interrupted
\* genesis initialization left, the genesis, or a chain of two blocks
BootStorages ==
    {write(DbEmpty, SubSeq(GenesisPuts, 1, k)) : k \in 0..Len(GenesisPuts)}
        \cup {ChainDb(body.txs, t) : body \in SyncBodies, t \in Timestamps}

InitBoot ==
    /\ db \in BootStorages
    /\ wallet \in Keys
    /\ ConcurrencyIdle
    /\ pre = [taken |-> TRUE, ws |-> EmptyMap, mempool |-> MempoolNew,
              db |-> db]
    /\ ws = EmptyMap
    /\ mempool = MempoolNew
    /\ boot = [pc |-> "start", written |-> {}]
    /\ tpc = "sleep"
    /\ tloc = TickerIdle
    /\ hpc = "recv"
    /\ hloc = HandlerIdle
    /\ sm_lock = "none"
    /\ commits = 0
    /\ crashes = 0
    /\ crash_note = NoCrash
    /\ call = NoCall

\* get_chain_tip returns Err (a failed read, undecodable bytes): the node
\* takes the database for a fresh one and initializes the genesis
StartTipUnreadable ==
    /\ boot.pc = "start"
    /\ ws' = EmptyMap
    /\ mempool' = MempoolNew
    /\ boot' = [pc |-> "genesis_accounts", written |-> {}]
    /\ UNCHANGED <<db, wallet, concurrency, workers, history>>

NextBoot ==
    \/ Start
    \/ StartTipUnreadable
    \/ GenesisSetAccounts
    \/ GenesisPutBlock
    \/ GenesisPutHeader
    \/ GenesisPutTip
    \/ GenesisPutHeight
    \/ GenesisPutAccount

SpecBoot == InitBoot /\ [][NextBoot]_vars

\* the genesis block is stored under its hash, it is the chain tip at
\* height 0, and the initial accounts are in storage and in memory
GenesisCommitted ==
    LET tip == get_chain_tip(db) IN
    /\ tip.some /\ tip.height = 0
    /\ tip.hash \in DOMAIN db.blocks
    /\ LET genesis == db.blocks[tip.hash] IN
       /\ calculate_hash(genesis.header) = tip.hash
       /\ genesis.header.block_number = 0
       /\ genesis.header.parent_hash = ZeroHash
       /\ genesis.transactions = <<>>
       /\ genesis.header.tx_root = Sha256(<<>>)
       /\ genesis.header.validator
             = address_from_public_key(GenesisValidators[1])
       /\ genesis.header.signature = ZeroSignature
    /\ \A a \in DOMAIN InitialBalances :
          /\ a \in DOMAIN db.state
          /\ db.state[a] = Account(InitialBalances[a], 0)
          /\ a \in DOMAIN ws
          /\ ws[a] = Account(InitialBalances[a], 0)

C35_FreshStorage ==
    (~get_chain_tip(pre.db).some /\ Running) => GenesisCommitted

C35_ExistingStorage ==
    get_chain_tip(pre.db).some =>
        /\ db.meta = pre.db.meta
        /\ db.blocks = pre.db.blocks
        /\ db.state = pre.db.state

\* C35: a node started on storage without a chain tip ends initialization
\* with the genesis block (height 0, zero parent hash, no transactions, the
\* empty Merkle root, validators[0] as validator, a zero signature) stored,
\* the chain tip at (its hash, 0) and every initial account with its balance
\* and nonce 0 in storage and in memory; a node started on storage that has a
\* chain tip changes neither the stored tip nor blocks nor accounts while it
\* initializes.
C35_GenesisBootstrap == C35_FreshStorage /\ C35_ExistingStorage

-----------------------------------------------------------------------------
(* The tasks of run_node at the level of their mutex acquisitions *)

\* capacity of the network command queue
command_capacity == 1
\* longest block list of a sync response at this level
MaxResponseBlocks == 1

LockNames == {"consensus", "state_machine", "mempool", "storage"}

Tasks == {"ticker", "handler", "requester"}

Holder(lock) ==
    CASE lock = "consensus" -> consensus_lock
      [] lock = "state_machine" -> sm_lock
      [] lock = "mempool" -> mempool_lock
      [] lock = "storage" -> storage_lock

HeldBy(task) == {lock \in LockNames : Holder(lock) = task}

\* the statements of a task that touch a mutex or the command queue, and
\* the calls between them that can fail
LockAwait(at, lock) == [at |-> at, op |-> "lock", lock |-> lock]
Drop(at, lock) == [at |-> at, op |-> "drop", lock |-> lock]
\* a call whose error leaves the scope (continue, return): the guards held are
\* dropped and the task goes on at `back`
Fallible(at, back) == [at |-> at, op |-> "call", back |-> back]
\* interval.tick(), sleep()
Timer(at) == [at |-> at, op |-> "timer"]
\* sender.send(command).await
SendAwait(at) == [at |-> at, op |-> "send"]
\* end of a loop body or match arm: the guards still held are dropped
EndOfScope(at, to) == [at |-> at, op |-> "end", to |-> to]
\* incoming_message_receiver.recv().await and the match on the message
RecvAwait(at, arms) == [at |-> at, op |-> "recv", arms |-> arms]
\* for block in blocks
ForBlocks(at, exit) == [at |-> at, op |-> "for", exit |-> exit]
\* the task has returned
Returned(at) == [at |-> at, op |-> "returned"]

\* the block-production task, main.rs:727-867
TickerProgram ==
    <<Timer("tick"),
      LockAwait("tip_lock", "storage"),
      Fallible("tip_read", "tick"),
      Drop("tip_drop", "storage"),
      LockAwait("proposer_lock", "consensus"),
      Fallible("proposer", "tick"),
      Drop("proposer_drop", "consensus"),
      LockAwait("pending_lock", "mempool"),
      Drop("pending_drop", "mempool"),
      Fallible("build", "tick"),
      LockAwait("apply_lock", "state_machine"),
      Fallible("apply", "tick"),
      LockAwait("remove_lock", "mempool"),
      Drop("remove_drop", "mempool"),
      LockAwait("commit_lock", "storage"),
      Fallible("commit", "tick"),
      Drop("commit_drop", "storage"),
      Drop("apply_drop", "state_machine"),
      SendAwait("broadcast"),
      EndOfScope("tick_end", "tick")>>

\* NetworkMessage::NewTransaction, main.rs:571-584
NewTransactionArm ==
    <<LockAwait("tx_lock", "mempool"),
      EndOfScope("tx_end", "recv")>>

\* the NewBlock arm with the storage mutex taken before the state machine's
NewBlockArm_storage_first ==
    <<LockAwait("block_validate_lock", "consensus"),
      Fallible("block_validate", "recv"),
      Drop("block_validate_drop", "consensus"),
      LockAwait("block_commit_lock", "storage"),
      Fallible("block_commit", "recv"),
      LockAwait("block_apply_lock", "state_machine"),
      Fallible("block_apply", "recv"),
      LockAwait("block_remove_lock", "mempool"),
      Drop("block_remove_drop", "mempool"),
      EndOfScope("block_end", "recv")>>

\* NetworkMessage::NewBlock, main.rs:585-622
NewBlockArm ==
    <<LockAwait("block_validate_lock", "consensus"),
      Fallible("block_validate", "recv"),
      Drop("block_validate_drop", "consensus"),
      LockAwait("block_apply_lock", "state_machine"),
      Fallible("block_apply", "recv"),
      LockAwait("block_remove_lock", "mempool"),
      Drop("block_remove_drop", "mempool"),
      LockAwait("block_commit_lock", "storage"),
      Fallible("block_commit", "recv"),
      EndOfScope("block_end", "recv")>>

\* NetworkMessage::SyncRequest, main.rs:623-667
SyncRequestArm ==
    <<LockAwait("request_lock", "storage"),
      Fallible("request_tip", "recv"),
      Drop("request_drop", "storage"),
      SendAwait("request_send"),
      EndOfScope("request_end", "recv")>>

\* NetworkMessage::SyncResponseBlocks, main.rs:668-703
SyncResponseBlocksArm ==
    <<ForBlocks("sync_for", "recv"),
      LockAwait("sync_validate_lock", "consensus"),
      Fallible("sync_validate", "sync_for"),
      Drop("sync_validate_drop", "consensus"),
      LockAwait("sync_apply_lock", "state_machine"),
      Fallible("sync_apply", "sync_for"),
      LockAwait("sync_commit_lock", "storage"),
      Fallible("sync_commit", "sync_for"),
      Drop("sync_commit_drop", "storage"),
      Drop("sync_apply_drop", "state_machine"),
      EndOfScope("sync_end", "sync_for")>>

\* the incoming-message task, main.rs:567-710
HandlerProgram ==
    <<RecvAwait("recv", {"tx_lock", "block_validate_lock", "request_lock",
                         "sync_for"})>>
        \o NewTransactionArm \o NewBlockArm \o SyncRequestArm
        \o SyncResponseBlocksArm

\* the initial sync request task, main.rs:516-557
RequesterProgram ==
    <<Timer("sleep"),
      LockAwait("sync_tip_lock", "storage"),
      Fallible("sync_tip", "returned"),
      Drop("sync_tip_drop", "storage"),
      SendAwait("sync_request_send"),
      EndOfScope("requester_end", "returned"),
      Returned("returned")>>

Program(task) ==
    CASE task = "ticker" -> TickerProgram
      [] task = "handler" -> HandlerProgram
      [] task = "requester" -> RequesterProgram

Position(task) ==
    CASE task = "ticker" -> tpc
      [] task = "handler" -> hpc
      [] task = "requester" -> rpc

IndexOf(task) ==
    CHOOSE k \in 1..Len(Program(task)) : Program(task)[k].at = Position(task)

Statement(task) == Program(task)[IndexOf(task)]

Following(task) == Program(task)[IndexOf(task) + 1].at

GoTo(task, at) ==
    /\ tpc' = IF task = "ticker" THEN at ELSE tpc
    /\ hpc' = IF task = "handler" THEN at ELSE hpc
    /\ rpc' = IF task = "requester" THEN at ELSE rpc

\* the holders after `task` has taken the mutexes `taken` and dropped the
\* mutexes `dropped`
Holders(task, taken, dropped) ==
    [lock \in LockNames |->
        IF lock \in taken THEN task
        ELSE IF lock \in dropped THEN "none" ELSE Holder(lock)]

SetHolders(holders) ==
    /\ consensus_lock' = holders["consensus"]
    /\ sm_lock' = holders["state_machine"]
    /\ mempool_lock' = holders["mempool"]
    /\ storage_lock' = holders["storage"]

\* the sender the network service hands out: a command is queued if the
\* bounded queue has room and dropped otherwise; the caller goes on either way
send_waits_for_room(queue) ==
    [ready |-> queue < command_capacity, queued |-> TRUE, queue |-> queue + 1]

send(queue) ==
    [ready |-> TRUE,
     queued |-> queue < command_capacity,
     queue |-> IF queue < command_capacity THEN queue + 1 ELSE queue]

LocksFrame == <<db, ws, mempool, wallet, boot, tloc, pre, commits, crashes,
                crash_note>>

InitLocks ==
    /\ tpc = "tick"
    /\ hpc = "recv"
    /\ hloc = HandlerIdle
    /\ sm_lock = "none"
    /\ ConcurrencyIdle
    /\ db = GenesisDb
    /\ ws = GenesisWorldState
    /\ mempool = MempoolNew
    /\ wallet = NodeWallet
    /\ boot = [pc |-> "running", written |-> {}]
    /\ tloc = TickerIdle
    /\ pre = NoSnapshot
    /\ commits = 0
    /\ crashes = 0
    /\ crash_note = NoCrash
    /\ call = NoCall

\* mutex.lock().await returns
Acquire(task) ==
    /\ Statement(task).op = "lock"
    /\ Holder(Statement(task).lock) = "none"
    /\ SetHolders(Holders(task, {Statement(task).lock}, {}))
    /\ GoTo(task, Following(task))
    /\ UNCHANGED <<hloc, network_commands, call, LocksFrame>>

\* drop(guard)
Release(task) ==
    /\ Statement(task).op = "drop"
    /\ SetHolders(Holders(task, {}, {Statement(task).lock}))
    /\ GoTo(task, Following(task))
    /\ UNCHANGED <<hloc, network_commands, call, LocksFrame>>

\* a timer fires, or a call returns Ok
Proceed(task) ==
    /\ Statement(task).op \in {"timer", "call"}
    /\ GoTo(task, Following(task))
    /\ UNCHANGED <<sm_lock, consensus_lock, mempool_lock, storage_lock, hloc,
                   network_commands, call, LocksFrame>>

\* a call returns Err (or it is not this node's turn): continue / return
Fail(task) ==
    /\ Statement(task).op = "call"
    /\ SetHolders(Holders(task, {}, HeldBy(task)))
    /\ GoTo(task, Statement(task).back)
    /\ UNCHANGED <<hloc, network_commands, call, LocksFrame>>

\* the note of the task's last send is kept up to here
LeaveScope(task) ==
    /\ Statement(task).op = "end"
    /\ SetHolders(Holders(task, {}, HeldBy(task)))
    /\ GoTo(task, Statement(task).to)
    /\ call' = IF call.op = "send" /\ call.task = task THEN NoCall ELSE call
    /\ UNCHANGED <<hloc, network_commands, LocksFrame>>

\* a message arrives; a sync response carries some blocks
Receive ==
    /\ Statement("handler").op = "recv"
    /\ \E at \in Statement("handler").arms, n \in 0..MaxResponseBlocks :
        /\ GoTo("handler", at)
        /\ hloc' = [hloc EXCEPT !.block = NoBlock,
                                !.rest = IF at = "sync_for"
                                         THEN [k \in 1..n |-> NoBlock]
                                         ELSE <<>>]
    /\ UNCHANGED <<sm_lock, consensus_lock, mempool_lock, storage_lock,
                   network_commands, call, LocksFrame>>

\* the head of the loop over the blocks of a sync response
ForBlock ==
    /\ Statement("handler").op = "for"
    /\ IF hloc.rest = <<>>
       THEN /\ GoTo("handler", Statement("handler").exit)
            /\ hloc' = hloc
       ELSE /\ GoTo("handler", Following("handler"))
            /\ hloc' = [hloc EXCEPT !.block = Head(hloc.rest),
                                    !.rest = Tail(hloc.rest)]
    /\ UNCHANGED <<sm_lock, consensus_lock, mempool_lock, storage_lock,
                   network_commands, call, LocksFrame>>

\* sender.send(command).await returns
SendCommand(task) ==
    /\ Statement(task).op = "send"
    /\ LET r == send(network_commands) IN
       /\ r.ready
       /\ network_commands' = r.queue
       /\ call' = [op |-> "send", task |-> task, queued |-> r.queued]
    /\ GoTo(task, Following(task))
    /\ UNCHANGED <<sm_lock, consensus_lock, mempool_lock, storage_lock, hloc,
                   LocksFrame>>

\* the network service takes a command off its queue
NetworkTakesCommand ==
    /\ network_commands > 0
    /\ network_commands' = network_commands - 1
    /\ UNCHANGED <<sm_lock, consensus_lock, mempool_lock, storage_lock, hloc,
                   tpc, hpc, rpc, call, LocksFrame>>

NextLocks ==
    \/ \E task \in Tasks : Acquire(task)
    \/ \E task \in Tasks : Release(task)
    \/ \E task \in Tasks : Proceed(task)
    \/ \E task \in Tasks : Fail(task)
    \/ \E task \in Tasks : LeaveScope(task)
    \/ \E task \in Tasks : SendCommand(task)
    \/ Receive
    \/ ForBlock
    \/ NetworkTakesCommand

SpecLocks == InitLocks /\ [][NextLocks]_vars

\* a task that can take a step takes one; the tokio mutex hands the lock to
\* its waiters in turn, so a task that awaits a mutex that is free again and
\* again gets it. Nothing makes a message arrive or the network service take
\* a command.
Running_(task) ==
    Release(task) \/ Proceed(task) \/ LeaveScope(task) \/ SendCommand(task)
        \/ (task = "handler" /\ ForBlock)

FairnessLocks ==
    \A task \in Tasks :
        WF_vars(Running_(task)) /\ SF_vars(Acquire(task))

FairSpecLocks == SpecLocks /\ FairnessLocks

AtSend(task) == Statement(task).op = "send"

AwaitsLock(task) == Statement(task).op = "lock"

QueueFull == network_commands = command_capacity

C37_AtMostOneLock ==
    \A task \in Tasks : Cardinality(HeldBy(task)) <= 1

\* the task that `task` waits for: the holder of the mutex it awaits
WaitsFor(task) ==
    IF task \in Tasks /\ AwaitsLock(task)
       /\ Holder(Statement(task).lock) # "none"
    THEN Holder(Statement(task).lock) ELSE "nobody"

NoWaitCycle ==
    \A task \in Tasks :
        task \notin {WaitsFor(task), WaitsFor(WaitsFor(task)),
                     WaitsFor(WaitsFor(WaitsFor(task)))}

\* C38: no interleaving of the ticker, the handler and the initial sync
\* requester reaches a state in which tasks wait for each other's mutexes in
\* a cycle, and a task that awaits a mutex gets it, provided the holders keep
\* running.
C38_DeadlockFreedom ==
    /\ []NoWaitCycle
    /\ \A task \in Tasks : AwaitsLock(task) ~> ~AwaitsLock(task)

\* the handler waits for the state machine held by the ticker, which waits
\* for storage held by the requester
C38_Witness ==
    /\ WaitsFor("handler") = "ticker"
    /\ WaitsFor("ticker") = "requester"
    /\ HeldBy("ticker") = {"state_machine"}

-----------------------------------------------------------------------------
(* Structure of the mempool *)

QueueIds(mp) == {mp.pending_queue[k] : k \in 1..Len(mp.pending_queue)}

\* C39: after any sequence of add, pending, remove, contains and status
\* calls the pending queue holds no id twice and its ids are the keys of the
\* transaction map; so the count of status is the number of stored
\* transactions, contains answers yes for the queued ids and no others, and
\* pending finds a stored transaction for every queue entry it visits.
C39_MempoolStructure ==
    "stamp" \in DOMAIN call =>
        /\ \A i, j \in 1..Len(mempool.pending_queue) :
              i # j => mempool.pending_queue[i] # mempool.pending_queue[j]
        /\ QueueIds(mempool) = DOMAIN mempool.transactions
        /\ call.op = "status" =>
              call.result.pending_transactions_count
                 = Cardinality(DOMAIN call.before.transactions)
        /\ call.op = "contains" =>
              (call.result <=> call.tx_hash \in QueueIds(call.before))
        /\ call.op = "pending" =>
              Len(call.result)
                 = (IF call.max_txs < Len(call.before.pending_queue)
                    THEN call.max_txs ELSE Len(call.before.pending_queue))

\* status is asked of a mempool that admitted three transactions and lost
\* one of them to a removal
C39_Witness ==
    /\ call.op = "status"
    /\ call.clock = 3
    /\ call.result.pending_transactions_count = 2
    /\ Cardinality(DOMAIN mempool.transactions) = 2

-----------------------------------------------------------------------------
(* Equivocation and the persisted world state *)

\* the failed commit of a tick, with the block that was signed and applied
\* and did not reach storage kept in `call`
TickerCommitFailsNoted ==
    TickerCommitFailsWith([op |-> "commit_failed", block |-> tloc.block])

\* ticks, submitted transactions, received blocks and failing commits
NextCommitFailures ==
    \/ Start \/ GenesisSetAccounts \/ GenesisPutBlock \/ GenesisPutHeader
    \/ GenesisPutTip \/ GenesisPutHeight \/ GenesisPutAccount
    \/ TickerTick \/ TickerCollect \/ TickerApply \/ TickerRemove
    \/ TickerCommit \/ TickerCommitFailsNoted
    \/ HandlerNewTransaction \/ HandlerNewBlock \/ HandlerRemove
    \/ HandlerCommit \/ HandlerCommitFails

SpecCommitFailures == Init /\ [][NextCommitFailures]_vars

\* the transactions of the blocks in storage
CommittedTransactions(store) ==
    UNION {{store.blocks[h].transactions[k] :
               k \in 1..Len(store.blocks[h].transactions)} :
           h \in DOMAIN store.blocks}

\* every nonce in storage counts transactions of committed blocks: an
\* account's stored nonce is not above the number of committed transactions
\* it sent
PersistedEffectsAreCommitted ==
    \A a \in DOMAIN db.state :
        db.state[a].nonce
           <= Cardinality({tx \in CommittedTransactions(db) :
                              address_from_public_key(tx.sender) = a})

\* the ticker does not sign and apply a block for a height for which it has
\* signed and applied a different one
NoSecondBlockForHeight ==
    (tpc = "apply" /\ tpc' = "remove") =>
        ~(/\ call.op = "commit_failed"
          /\ call.block.header.block_number = tloc.block.header.block_number
          /\ call.block # tloc.block)

\* C40: across ticks, received messages and failing storage commits the node
\* never signs and applies two different blocks for one height, and the world
\* state in storage never holds the effects of a transaction that is in no
\* block committed to that storage.
C40_NoEquivocation ==
    /\ []PersistedEffectsAreCommitted
    /\ [][NoSecondBlockForHeight]_vars

====
